---- MODULE Spec2Model ----
(***************************************************************************)
(* Model of ahk_mini_ide: the AHKRunner process runner                     *)
(* (src/ahk_mini_ide/editor/runner.py) together with the QProcess, QTimer  *)
(* and temporary-file objects it drives; the command line and working      *)
(* directory run resolves; the HotkeyManager                               *)
(* (src/ahk_mini_ide/hotkeys/global_hotkeys.py) with the hot-key table of  *)
(* the OS; and the hot-key glue of MainWindow (src/ahk_mini_ide/app.py).   *)
(*                                                                         *)
(* One step of the model is one handler of the single-threaded Qt event    *)
(* loop run to completion: a call of run or stop, the firing of a kill     *)
(* timer, a notification of a child process, or the passing of time.       *)
(*                                                                         *)
(* Each component has its own specification; the variables of the other    *)
(* components stay at their initial values in it:                          *)
(*   Spec, SpecPrompt   the runner                                         *)
(*   SpecLive           the runner of saved scripts, with timers that fire *)
(*                      and kills that terminate                           *)
(*   SpecCmd            the command line and working directory of run      *)
(*   SpecHotkeys        the HotkeyManager under any sequence of calls      *)
(*   SpecGlue           the HotkeyManager as MainWindow drives it          *)
(*   SpecSnap           capture_snapshot of the inspector                  *)
(*   SpecGen            the code generators                                *)
(*   SpecInsert         the insertion of generated code into the editor    *)
(*   SpecRecent         the recent-projects list of Settings               *)
(*   SpecDispatch       the inspector tick and the hot-key dispatch        *)
(***************************************************************************)
EXTENDS Integers, Sequences, FiniteSets, TLC

\* ------------------------------------------------------------------------
\* Bounds of the model
\* ------------------------------------------------------------------------
\* QProcess objects the runner may create in one behaviour
MaxRuns == 2
\* QTimer objects that may be pending at the same time
MaxTimers == 2
\* largest graceful_timeout_ms passed to stop, in ticks of the model clock
MaxTimeout == 1
\* longest flags and args string passed to run, in characters
MaxLen == 3
\* largest hot-key id in a mapping passed to register_all directly
MaxId == 2
\* largest click count passed to gen_click
MaxCount == 2
\* code fragments the hot keys generate in one behaviour
MaxFragments == 3
\* calls of add_recent_project in one behaviour
MaxAdds == 3
\* presses of the drag hot key in one behaviour
MaxPresses == 3

\* ------------------------------------------------------------------------
\* Program constants
\* ------------------------------------------------------------------------
\* the exit code of the "Failed to start" completion event
FailedStartCode == -1

\* exit codes a child may report (QProcess.finished carries an int; Qt
\* documents the code as not valid when the exit status is CrashExit, so
\* every code may come with either status)
ExitCodes == {-1, 0, 1}
\* QProcess.ExitStatus
ExitStatuses == {"NormalExit", "CrashExit"}
\* graceful_timeout_ms values, in ticks
Timeouts == 0..MaxTimeout
\* what start() followed by waitForStarted(3000) can report:
\*   "started"  waitForStarted returned True, the process is Running
\*   "failed"   waitForStarted returned False with error FailedToStart, the
\*              process is NotRunning and will never emit finished
\*   "timedout" waitForStarted returned False with error Timedout, the
\*              process is still Starting
StartOutcomes == {"started", "failed", "timedout"}

VARIABLES
    state,       \* AHKRunner._state: "IDLE", "RUNNING" or "ERROR"
    process,     \* AHKRunner._process: 0 for None, else index into procs
    procs,       \* the QProcess objects created so far, in creation order
    temp_file,   \* AHKRunner._temp_file: 0 for None, else the file's id
    fs,          \* ids of the temporary files that exist on disk
    kill_timer,  \* AHKRunner._kill_timer: 0 for None, else a timer slot
    timers,      \* the QTimer slots: active flag, remaining ticks, armed-for
    out,         \* signals and OS requests issued by the last step, in order
    op           \* the last step: which handler ran, with which inputs

vars == <<state, process, procs, temp_file, fs, kill_timer, timers, out, op>>

VARIABLES
    call         \* the last call of run seen from outside: its arguments, and
                 \* the target, working directory and command line it resolved

cmdvars == <<call>>

VARIABLES
    is_windows,  \* _IS_WINDOWS: sys.platform == "win32"
    qapp,        \* QApplication.instance() is not None
    foreign,     \* virtual-key codes whose Ctrl+Shift hot key another
                 \* process owns
    registered,  \* HotkeyManager._registered: id -> vk
    filter,      \* HotkeyManager._filter is not None
    installed,   \* native event filters of the listener installed on the
                 \* application
    os_hot,      \* the hot keys the OS holds for this thread: id and vk
    hk_out,      \* OS calls and notifications of the last hot-key step
    hk_op        \* the last hot-key step, with its inputs and result

envvars == <<is_windows, qapp, foreign>>
hkvars == <<is_windows, qapp, foreign, registered, filter, installed, os_hot,
            hk_out, hk_op>>

VARIABLES
    settings,    \* MainWindow._settings: the letter of each hot key
    phase        \* MainWindow: "init" before _register_hotkeys has run,
                 \* "open" while the window is shown, "closed" afterwards

gluevars == <<settings, phase>>

VARIABLES
    snap         \* the last call of capture_snapshot: its arguments, the
                 \* answers of the OS, the snapshot returned and the
                 \* resource calls made

snapvars == <<snap>>

VARIABLES
    gen          \* the last call of a code generator: its arguments and the
                 \* code it returned

genvars == <<gen>>

VARIABLES
    has_focus,           \* CodeEditor.hasFocus()
    pending_insertions,  \* MainWindow._pending_insertions
    document,            \* the text blocks of the editor's document
    cursor,              \* the block the editor's text cursor is in
    drag_start,          \* MainWindow._drag_start is not None
    generated,           \* number of code fragments generated so far
    ins_op               \* what the last handler did with generated code

insvars == <<has_focus, pending_insertions, document, cursor, drag_start,
             generated, ins_op>>

VARIABLES
    recent       \* Settings: the "recent_projects" list, the list the
                 \* settings file held at start-up, and the projects passed
                 \* to add_recent_project since, in call order

recentvars == <<recent>>

VARIABLES
    inspector,   \* InspectorWidget: _snapshot, _last_hwnd, _frozen,
                 \* _follow_mouse
    dispatch     \* MainWindow: _drag_start, the configured coordinate mode,
                 \* the coordinates of the snapshot the drag start was taken
                 \* from, the drag presses and drag statements so far, and
                 \* the last handler with the code it generated

dispvars == <<inspector, dispatch>>

\* the variables of the inspector capture, of the code generators, of the
\* insertion of generated code, of the settings and of the dispatch
auxvars == <<snapvars, genvars, insvars, recentvars, dispvars>>

\* the variables that are not the runner's
nonRunnerVars == <<call, hkvars, gluevars, auxvars>>

\* ------------------------------------------------------------------------
\* Events (one record shape for all of them)
\* ------------------------------------------------------------------------
Ev(ev, n, s, msg) == [ev |-> ev, n |-> n, s |-> s, msg |-> msg]

\* state_changed.emit(s)
StateChanged(s) == Ev("state_changed", 0, s, <<>>)
\* stdout_ready.emit(text) / stderr_ready.emit(text)
StdoutReady(kind) == Ev("stdout_ready", 0, kind, <<>>)
StderrReady(kind) == Ev("stderr_ready", 0, kind, <<>>)
\* finished.emit(code, message)
Finished(code, msg) == Ev("finished", code, "", msg)
\* QProcess.start / terminate / kill on process object p
ProcStart(p) == Ev("start", p, "", <<>>)
ProcTerminate(p) == Ev("terminate", p, "", <<>>)
ProcKill(p) == Ev("kill", p, "", <<>>)
\* tempfile.mkstemp created file f; os.remove(f) returned or raised OSError
MkStemp(f) == Ev("mkstemp", f, "", <<>>)
Remove(f, ok) == Ev("remove", f, IF ok THEN "ok" ELSE "OSError", <<>>)

\* the record kept of the last step
Op(name, pid, res, code, status, unsaved) ==
    [name |-> name, pid |-> pid, res |-> res, code |-> code,
     status |-> status, unsaved |-> unsaved]

\* ------------------------------------------------------------------------
\* Helpers
\* ------------------------------------------------------------------------
Range(s) == {s[i] : i \in DOMAIN s}

Pids == 1..Len(procs)
TimerIds == 1..MaxTimers

\* a QProcess whose state() is not NotRunning
Active(p) == procs[p].st # "NotRunning"
ActivePids == {p \in Pids : Active(p)}

IdleTimer == [active |-> FALSE, rem |-> 0, pid |-> 0]

SetProc(ps, p, field, val) == [ps EXCEPT ![p] = [@ EXCEPT ![field] = val]]

\* a QProcess object that is NotRunning: nothing else of it is observable
DeadProc == [st |-> "NotRunning", unsaved |-> FALSE, termed |-> FALSE,
             killed |-> FALSE]

\* ------------------------------------------------------------------------
\* AHKRunner.__init__
\* ------------------------------------------------------------------------
RunnerInit ==
    /\ state = "IDLE"
    /\ process = 0
    /\ procs = <<>>
    /\ temp_file = 0
    /\ fs = {}
    /\ kill_timer = 0
    /\ timers = [t \in TimerIds |-> IdleTimer]
    /\ out = <<>>
    /\ op = Op("init", 0, "", 0, "", FALSE)

\* ------------------------------------------------------------------------
\* AHKRunner.run
\* ------------------------------------------------------------------------
\* faulty variant of the guard of run: the guard is missing
AlreadyRunning_Never == FALSE

\* faulty variant of the guard of run: it reads the runner state instead of
\* the state of the QProcess
AlreadyRunning_ByRunnerState == state = "RUNNING"

\* the guard of run: "already running"
AlreadyRunning ==
    IF process = 0 THEN FALSE ELSE procs[process].st # "NotRunning"

\* the QProcess state after start() and waitForStarted(3000)
StateAfterStart(outcome) ==
    CASE outcome = "started" -> "Running"
      [] outcome = "failed" -> "NotRunning"
      [] outcome = "timedout" -> "Starting"

FailedStartMessage == <<"Failed", "to", "start", "AHK", "process">>

\* what run emits once the process was started and waited for
StartFailureEvents(p, outcome) ==
    IF outcome = "started" THEN <<>>
    ELSE <<StateChanged("ERROR"),
           Finished(FailedStartCode, FailedStartMessage)>>

\* faulty variant: the process is started before the command line is shown
RunStartEvents_StartFirst(p) ==
    <<StateChanged("RUNNING"), ProcStart(p), StdoutReady("cmdline")>>

\* _set_state(RUNNING), the ">> command line" output line, QProcess.start
RunStartEvents(p) ==
    <<StateChanged("RUNNING"), StdoutReady("cmdline"), ProcStart(p)>>

RunRejected(unsaved) ==
    /\ AlreadyRunning
    /\ out' = <<>>
    /\ op' = Op("run", process, "rejected", 0, "", unsaved)
    /\ UNCHANGED <<state, process, procs, temp_file, fs, kill_timer, timers>>

RunAccepted(unsaved, outcome) ==
    /\ ~AlreadyRunning
    /\ Len(procs) < MaxRuns
    /\ LET p == Len(procs) + 1
       IN /\ temp_file' = IF unsaved THEN p ELSE temp_file
          /\ fs' = IF unsaved THEN fs \cup {p} ELSE fs
          /\ procs' = Append(procs,
                             IF outcome = "failed" THEN DeadProc
                             ELSE [st |-> StateAfterStart(outcome),
                                   unsaved |-> unsaved,
                                   termed |-> FALSE,
                                   killed |-> FALSE])
          /\ process' = p
          /\ state' = IF outcome = "started" THEN "RUNNING" ELSE "ERROR"
          /\ out' = (IF unsaved THEN <<MkStemp(p)>> ELSE <<>>)
                    \o RunStartEvents(p)
                    \o StartFailureEvents(p, outcome)
          /\ op' = Op("run", p, outcome, 0, "", unsaved)
    /\ UNCHANGED <<kill_timer, timers>>

RunWith(outcomes) ==
    \E unsaved \in BOOLEAN :
        \/ RunRejected(unsaved)
        \/ \E outcome \in outcomes : RunAccepted(unsaved, outcome)

Run == RunWith(StartOutcomes)

\* run when every start is decided within the 3 seconds: the process has
\* started or has failed to start by the time waitForStarted returns
RunPrompt == RunWith(StartOutcomes \ {"timedout"})

\* ------------------------------------------------------------------------
\* AHKRunner.stop
\* ------------------------------------------------------------------------
\* the guard of stop: nothing to stop
NothingToStop ==
    IF process = 0 THEN TRUE ELSE procs[process].st = "NotRunning"

\* what stop asks of the process before it arms the timer
StopRequest(p) == <<ProcTerminate(p)>>

StopNoop(ms) ==
    /\ NothingToStop
    /\ out' = <<>>
    /\ op' = Op("stop", process, "noop", 0, "", FALSE)
    /\ UNCHANGED <<state, process, procs, temp_file, fs, kill_timer, timers>>

\* stop creates a new QTimer and overwrites self._kill_timer; a QTimer an
\* earlier stop armed stays a child of the runner, still armed
StopActive(ms) ==
    /\ ~NothingToStop
    /\ \E t \in TimerIds :
        /\ ~timers[t].active
        /\ \A u \in TimerIds : u < t => timers[u].active
        /\ timers' = [timers EXCEPT ![t] =
                         [active |-> TRUE, rem |-> ms, pid |-> process]]
        /\ kill_timer' = t
    /\ procs' = SetProc(procs, process, "termed", TRUE)
    /\ out' = StopRequest(process)
    /\ op' = Op("stop", process, "sent", 0, "", FALSE)
    /\ UNCHANGED <<state, process, temp_file, fs>>

Stop == \E ms \in Timeouts : StopNoop(ms) \/ StopActive(ms)

\* ------------------------------------------------------------------------
\* AHKRunner._hard_kill, called when a kill timer's timeout fires
\* ------------------------------------------------------------------------
\* faulty variant: the timer fires but no kill is sent
HardKillDue_Never == FALSE

\* the guard of _hard_kill
HardKillDue ==
    IF process = 0 THEN FALSE ELSE procs[process].st # "NotRunning"

HardKill ==
    \E t \in TimerIds :
        /\ timers[t].active
        /\ timers[t].rem = 0
        /\ timers' = [timers EXCEPT ![t] = IdleTimer]
        /\ IF HardKillDue
           THEN /\ procs' = SetProc(procs, process, "killed", TRUE)
                /\ out' = <<ProcKill(process)>>
                /\ op' = Op("hard_kill", timers[t].pid, "kill", 0, "", FALSE)
           ELSE /\ procs' = procs
                /\ out' = <<>>
                /\ op' = Op("hard_kill", timers[t].pid, "none", 0, "", FALSE)
        /\ UNCHANGED <<state, process, temp_file, fs, kill_timer>>

\* the model clock: every pending timer comes one tick closer to its timeout
Tick ==
    /\ \E t \in TimerIds : timers[t].active /\ timers[t].rem > 0
    /\ timers' = [t \in TimerIds |->
                    IF timers[t].active /\ timers[t].rem > 0
                    THEN [timers[t] EXCEPT !.rem = @ - 1]
                    ELSE timers[t]]
    /\ out' = <<>>
    /\ op' = Op("tick", 0, "", 0, "", FALSE)
    /\ UNCHANGED <<state, process, procs, temp_file, fs, kill_timer>>

\* ------------------------------------------------------------------------
\* AHKRunner._on_stdout / _on_stderr
\* ------------------------------------------------------------------------
OnStdout ==
    \E p \in ActivePids :
        /\ procs[p].st = "Running"
        /\ out' = IF process # 0 THEN <<StdoutReady("child")>> ELSE <<>>
        /\ op' = Op("on_stdout", p, "", 0, "", FALSE)
        /\ UNCHANGED <<state, process, procs, temp_file, fs, kill_timer, timers>>

OnStderr ==
    \E p \in ActivePids :
        /\ procs[p].st = "Running"
        /\ out' = IF process # 0 THEN <<StderrReady("child")>> ELSE <<>>
        /\ op' = Op("on_stderr", p, "", 0, "", FALSE)
        /\ UNCHANGED <<state, process, procs, temp_file, fs, kill_timer, timers>>

\* ------------------------------------------------------------------------
\* A process whose start timed out: it reports started later, or fails
\* ------------------------------------------------------------------------
LateStarted ==
    \E p \in Pids :
        /\ procs[p].st = "Starting"
        /\ procs' = SetProc(procs, p, "st", "Running")
        /\ out' = <<>>
        /\ op' = Op("late_started", p, "", 0, "", FALSE)
        /\ UNCHANGED <<state, process, temp_file, fs, kill_timer, timers>>

LateStartFailed ==
    \E p \in Pids :
        /\ procs[p].st = "Starting"
        /\ procs' = [procs EXCEPT ![p] = DeadProc]
        /\ out' = <<>>
        /\ op' = Op("late_start_failed", p, "", 0, "", FALSE)
        /\ UNCHANGED <<state, process, temp_file, fs, kill_timer, timers>>

\* ------------------------------------------------------------------------
\* AHKRunner._on_finished
\* ------------------------------------------------------------------------
\* faulty variant: the temporary file is never cleaned up
TempCleanupDue_Never == FALSE

\* whether the temporary file is to be removed
TempCleanupDue == temp_file # 0 /\ temp_file \in fs

\* faulty variant: the exit code is not looked at
ExitState_AlwaysIdle(code) == "IDLE"

\* the state the runner takes on exit
ExitState(code) == IF code = 0 THEN "IDLE" ELSE "ERROR"

\* the code carried by the completion event
ExitEventCode(code) == code

\* the completion message
ExitMessage(code, status) ==
    IF code = 0
    THEN <<"Process", "exited", "normally">>
    ELSE LET label == IF status = "CrashExit" THEN "crashed" ELSE "exited"
         IN <<"Process", label, "with", "code", ToString(code)>>

OnFinished(p, code, status) ==
    /\ IF kill_timer # 0
       THEN /\ timers' = [timers EXCEPT ![kill_timer] = IdleTimer]
            /\ kill_timer' = 0
       ELSE UNCHANGED <<timers, kill_timer>>
    /\ \E ok \in BOOLEAN :
          IF TempCleanupDue
          THEN /\ fs' = IF ok THEN fs \ {temp_file} ELSE fs
               /\ temp_file' = 0
               /\ out' = <<Remove(temp_file, ok),
                           StateChanged(ExitState(code)),
                           Finished(ExitEventCode(code), ExitMessage(code, status))>>
          ELSE /\ ok
               /\ UNCHANGED <<fs, temp_file>>
               /\ out' = <<StateChanged(ExitState(code)),
                           Finished(ExitEventCode(code), ExitMessage(code, status))>>
    /\ state' = ExitState(code)
    /\ op' = Op("finished", p, "", code, status, procs[p].unsaved)

\* QProcess.finished of process object p: the process has left Running
ProcessExit ==
    \E p \in Pids, code \in ExitCodes, status \in ExitStatuses :
        /\ procs[p].st = "Running"
        /\ procs' = [procs EXCEPT ![p] = DeadProc]
        /\ OnFinished(p, code, status)
        /\ UNCHANGED process

\* ------------------------------------------------------------------------
\* AHKRunner.run, lines 57-82: the target, the working directory and the
\* command line.  A string is a sequence of one-character strings.
\* ------------------------------------------------------------------------
Whitespace == {" ", "\t"}

\* the characters of the flags and args strings of the model
ArgChars == {"a", " "}

\* the strings over chars of at most n characters
RECURSIVE StringsUpTo(_, _)
StringsUpTo(chars, n) ==
    IF n = 0 THEN {<<>>}
    ELSE LET shorter == StringsUpTo(chars, n - 1)
         IN shorter \cup {Append(w, c) : w \in shorter, c \in chars}

\* str.split(): the maximal runs of non-whitespace characters, in order
RECURSIVE SplitFrom(_, _, _, _)
SplitFrom(str, i, cur, acc) ==
    IF i > Len(str)
    THEN IF cur = <<>> THEN acc ELSE Append(acc, cur)
    ELSE IF str[i] \in Whitespace
         THEN SplitFrom(str, i + 1, <<>>,
                        IF cur = <<>> THEN acc ELSE Append(acc, cur))
         ELSE SplitFrom(str, i + 1, Append(cur, str[i]), acc)

Split(str) == SplitFrom(str, 1, <<>>, <<>>)

\* os.path.dirname (posixpath): everything up to the last "/", with the
\* trailing slashes stripped unless it consists of slashes only
RECURSIVE RStripSlash(_)
RStripSlash(path) ==
    IF path # <<>> /\ path[Len(path)] = "/"
    THEN RStripSlash(SubSeq(path, 1, Len(path) - 1))
    ELSE path

Dirname(path) ==
    LET slashes == {i \in DOMAIN path : path[i] = "/"}
        i == IF slashes = {} THEN 0
             ELSE CHOOSE k \in slashes : \A j \in slashes : j <= k
        head == SubSeq(path, 1, i)
    IN IF head # <<>> /\ \E k \in DOMAIN head : head[k] # "/"
       THEN RStripSlash(head)
       ELSE head

\* the path tempfile.mkstemp returns: a new file in the temporary directory
TempPath == <<"/", "t", "/", "k">>

\* faulty variant: the temporary file is written but script_path is run
TargetOf_ScriptPath(script_path, unsaved) == script_path

\* lines 57-63: the file that is run
TargetOf(script_path, unsaved) == IF unsaved THEN TempPath ELSE script_path

\* faulty variant: the caller's working directory is ignored
WorkingDirOf_TargetDir(working_dir, target) == Dirname(target)

\* lines 65-66: the effective working directory
WorkingDirOf(working_dir, target) ==
    IF working_dir # <<>> THEN working_dir ELSE Dirname(target)

\* faulty variant: the arguments are put before the target
CmdParts_ArgsFirst(ahk_exe, flags, target, args) ==
    <<ahk_exe>>
    \o (IF flags # <<>> THEN Split(flags) ELSE <<>>)
    \o (IF args # <<>> THEN Split(args) ELSE <<>>)
    \o <<target>>

\* lines 68-73: cmd_parts
CmdParts(ahk_exe, flags, target, args) ==
    <<ahk_exe>>
    \o (IF flags # <<>> THEN Split(flags) ELSE <<>>)
    \o <<target>>
    \o (IF args # <<>> THEN Split(args) ELSE <<>>)

\* the arguments run is called with
ExePaths == {<<"e">>, <<"/", "p", " ", "f", "/", "e">>}
ScriptPaths == {<<>>, <<"s">>, <<"d", "/", "s">>, <<"/", "s">>,
                <<"/", "d", "/", "s">>, <<"d", "/", "/", "s">>,
                <<"/", "/", "s">>, <<"d", " ", "x", "/", "s">>}
WorkingDirs == {<<>>, <<"/", "w">>}

NoCall == [ahk_exe |-> <<>>, script_path |-> <<>>, flags |-> <<>>,
           args |-> <<>>, working_dir |-> <<>>, unsaved |-> FALSE,
           target |-> <<>>, wd |-> <<>>, cmd |-> <<>>, made |-> FALSE]

CmdInit == call = NoCall

\* the first accepted call of run, as far as line 82
ResolveCommand ==
    /\ ~call.made
    /\ \E ahk_exe \in ExePaths, script_path \in ScriptPaths,
          flags \in StringsUpTo(ArgChars, MaxLen),
          args \in StringsUpTo(ArgChars, MaxLen),
          working_dir \in WorkingDirs, unsaved \in BOOLEAN :
          LET target == TargetOf(script_path, unsaved)
          IN call' = [ahk_exe |-> ahk_exe, script_path |-> script_path,
                      flags |-> flags, args |-> args,
                      working_dir |-> working_dir, unsaved |-> unsaved,
                      target |-> target,
                      wd |-> WorkingDirOf(working_dir, target),
                      cmd |-> CmdParts(ahk_exe, flags, target, args),
                      made |-> TRUE]

\* ========================================================================
\* HotkeyManager (hotkeys/global_hotkeys.py) and the hot keys of the OS
\* ========================================================================
\* class HotkeyID: CLICK, DRAG, PIXEL_LOOP, WIN_ACTIVATE
HotkeyID == {1, 2, 3, 4}

\* HotkeyID(id).name
HotkeyName(id) ==
    CASE id = 1 -> "CLICK"
      [] id = 2 -> "DRAG"
      [] id = 3 -> "PIXEL_LOOP"
      [] id = 4 -> "WIN_ACTIVATE"

\* the letters of the mappings passed to register_all directly
Letters == {"k", "D"}

\* str.upper() of a letter
Upper(letter) == IF letter = "k" THEN "K" ELSE letter

\* ord() of an upper-case letter: the virtual-key code
Ord(letter) ==
    CASE letter = "K" -> 75
      [] letter = "D" -> 68

\* the virtual-key codes another process may own a hot key of
ForeignVKs == {Ord("D")}

\* register_all's message for a platform without global hot keys
NotWindowsMessage == <<"Global hotkeys require Windows">>

\* register_all's message for a binding whose registration failed
FailedMessage(id, letter) ==
    <<"Failed to register Ctrl+Shift+", letter, " (id=", HotkeyName(id), ")">>

\* the dict a HotkeyManager starts with
EmptyTable == [x \in {} |-> 0]

\* d[id] = vk on a dict
TableSet(d, id, vk) ==
    [x \in (DOMAIN d) \cup {id} |-> IF x = id THEN vk ELSE d[x]]

\* OS calls and notifications of the hot-key layer
HkEv(ev, id, vk, ok) == [ev |-> ev, id |-> id, vk |-> vk, ok |-> ok]
\* user32.RegisterHotKey(0, id, mods, vk) returned ok
RegisterHotKey(id, vk, ok) == HkEv("RegisterHotKey", id, vk, ok)
\* user32.UnregisterHotKey(0, id) returned ok and freed the hot key of vk
UnregisterHotKey(id, vk, ok) == HkEv("UnregisterHotKey", id, vk, ok)
\* app.installNativeEventFilter / app.removeNativeEventFilter
InstallFilter == HkEv("installNativeEventFilter", 0, 0, TRUE)
RemoveFilter == HkEv("removeNativeEventFilter", 0, 0, TRUE)
\* hotkey_triggered.emit(hid)
HotkeyTriggered(id) == HkEv("hotkey_triggered", id, 0, TRUE)

\* the record kept of the last step of the hot-key layer
HkOp(name, bindings, errors, event_type, message, wParam, consumed) ==
    [name |-> name, bindings |-> bindings, errors |-> errors,
     event_type |-> event_type, message |-> message, wParam |-> wParam,
     consumed |-> consumed]

NoHkOp == HkOp("", <<>>, <<>>, "", "", 0, FALSE)

\* the ids bound by the mappings passed to register_all directly
BindingIds == 1..MaxId

\* the bindings mappings passed to register_all: a dict in insertion order,
\* as a sequence of <<id, letter>> with distinct ids
RECURSIVE BindingsUpTo(_)
BindingsUpTo(n) ==
    IF n = 0 THEN {<<>>}
    ELSE LET shorter == BindingsUpTo(n - 1)
         IN shorter \cup
            {Append(b, <<id, l>>) :
                b \in {s \in shorter : Len(s) = n - 1},
                id \in BindingIds, l \in Letters}

DistinctIds(b) == \A i, j \in DOMAIN b : b[i][1] = b[j][1] => i = j

BindingMaps == {b \in BindingsUpTo(MaxId) : DistinctIds(b)}

\* ------------------------------------------------------------------------
\* The OS: RegisterHotKey fails when the keystroke is already registered, by
\* this thread or by another process; a hot key registered earlier under the
\* same id is kept along with the new one
\* ------------------------------------------------------------------------
KeystrokeFree(os, taken, vk) ==
    /\ vk \notin taken
    /\ \A e \in os : e.vk # vk

OsEntry(id, vk) == [id |-> id, vk |-> vk]

\* ------------------------------------------------------------------------
\* HotkeyManager.register_all
\* ------------------------------------------------------------------------
\* faulty variant: the platform is never taken for a foreign one
NotWindows_Never(win) == FALSE

\* if not _IS_WINDOWS
NotWindows(win) == ~win

\* faulty variant: the loop is left at the first failed registration
NextBinding_AbortOnFailure(i, ok, n) == IF ok THEN i + 1 ELSE n + 1

\* the for loop goes on with the next binding, whatever ok was
NextBinding(i, ok, n) == i + 1

\* the for loop of register_all from binding i on; acc carries the dict, the
\* hot keys of the OS, the errors and the OS calls made so far
RECURSIVE RegisterEach(_, _, _, _)
RegisterEach(bindings, i, taken, acc) ==
    IF i > Len(bindings) THEN acc
    ELSE LET id == bindings[i][1]
             letter == bindings[i][2]
             vk == Ord(Upper(letter))
             ok == KeystrokeFree(acc.os_hot, taken, vk)
         IN RegisterEach(bindings, NextBinding(i, ok, Len(bindings)), taken,
                IF ok
                THEN [acc EXCEPT
                        !.os_hot = @ \cup {OsEntry(id, vk)},
                        !.registered = TableSet(@, id, vk),
                        !.out = Append(@, RegisterHotKey(id, vk, TRUE))]
                ELSE [acc EXCEPT
                        !.errors = Append(@, FailedMessage(id, letter)),
                        !.out = Append(@, RegisterHotKey(id, vk, FALSE))])

\* faulty variant: a filter is installed by every call
FilterMissing_Always(flt) == TRUE

\* if self._filter is None
FilterMissing(flt) == ~flt

\* register_all(bindings) on listener h in environment env; gives the
\* listener afterwards with the returned errors and the calls made
RegisterAllOn(h, env, bindings) ==
    IF NotWindows(env.is_windows)
    THEN [h EXCEPT !.errors = <<NotWindowsMessage>>, !.out = <<>>]
    ELSE LET r == RegisterEach(bindings, 1, env.foreign,
                               [h EXCEPT !.errors = <<>>, !.out = <<>>])
             inst == FilterMissing(r.filter) /\ env.qapp
         IN [r EXCEPT
               !.filter = TRUE,
               !.installed = IF inst THEN @ + 1 ELSE @,
               !.out = IF inst THEN Append(@, InstallFilter) ELSE @]

\* ------------------------------------------------------------------------
\* HotkeyManager.unregister_all
\* ------------------------------------------------------------------------
\* the for loop of unregister_all over the ids of the dict: one
\* UnregisterHotKey per id, which frees one hot key registered under that
\* id; which one, when there are several, is up to the OS. Gives every
\* outcome, as the hot keys left with the calls made.
RECURSIVE UnregisterEach(_, _)
UnregisterEach(ids, os) ==
    IF ids = {} THEN {[os_hot |-> os, out |-> <<>>]}
    ELSE LET id == CHOOSE x \in ids : \A y \in ids : x <= y
             held == {e \in os : e.id = id}
         IN IF held = {}
            THEN {[r EXCEPT !.out = <<UnregisterHotKey(id, 0, FALSE)>> \o @] :
                     r \in UnregisterEach(ids \ {id}, os)}
            ELSE UNION {
                   {[r EXCEPT !.out = <<UnregisterHotKey(id, e.vk, TRUE)>> \o @] :
                       r \in UnregisterEach(ids \ {id}, os \ {e})} :
                   e \in held}

\* unregister_all() on listener h in environment env: every outcome
UnregisterAllOn(h, env) ==
    IF NotWindows(env.is_windows)
    THEN {[h EXCEPT !.errors = <<>>, !.out = <<>>]}
    ELSE {[registered |-> EmptyTable,
           os_hot |-> u.os_hot,
           filter |-> FALSE,
           installed |-> IF h.filter /\ env.qapp /\ h.installed > 0
                         THEN h.installed - 1 ELSE h.installed,
           errors |-> <<>>,
           out |-> u.out \o (IF h.filter /\ env.qapp
                             THEN <<RemoveFilter>> ELSE <<>>)] :
             u \in UnregisterEach(DOMAIN h.registered, h.os_hot)}

\* ------------------------------------------------------------------------
\* _NativeFilter.nativeEventFilter and HotkeyManager._dispatch
\* ------------------------------------------------------------------------
\* event types and window messages a native event filter is called with,
\* and the wParam values of the messages
EventTypes == {"windows_generic_MSG", "windows_dispatcher_MSG"}
Messages == {"WM_HOTKEY", "WM_KEYDOWN"}
WParams == 0..5

\* faulty variant: every number is taken for a HotkeyID
IsHotkeyID_Any(n) == TRUE

\* HotkeyID(hotkey_id) does not raise ValueError
IsHotkeyID(n) == n \in HotkeyID

\* _dispatch(hotkey_id): what it emits
Dispatch(hotkey_id) ==
    IF IsHotkeyID(hotkey_id) THEN <<HotkeyTriggered(hotkey_id)>> ELSE <<>>

\* nativeEventFilter(event_type, message) of the class defined on the
\* platform: whether the event is consumed, and what is emitted
NativeEventFilter(win, event_type, message, wParam) ==
    IF win /\ event_type = "windows_generic_MSG" /\ message = "WM_HOTKEY"
    THEN [consumed |-> TRUE, out |-> Dispatch(wParam)]
    ELSE [consumed |-> FALSE, out |-> <<>>]

\* ------------------------------------------------------------------------
\* The listener as one value, and the steps of the hot-key layer
\* ------------------------------------------------------------------------
Listener ==
    [registered |-> registered, os_hot |-> os_hot, filter |-> filter,
     installed |-> installed, errors |-> <<>>, out |-> <<>>]

Env == [is_windows |-> is_windows, qapp |-> qapp, foreign |-> foreign]

SetListener(r) ==
    /\ registered' = r.registered
    /\ os_hot' = r.os_hot
    /\ filter' = r.filter
    /\ installed' = r.installed
    /\ hk_out' = r.out

\* HotkeyManager.__init__
HotkeyManagerInit ==
    /\ registered = EmptyTable
    /\ filter = FALSE
    /\ installed = 0
    /\ os_hot = {}
    /\ hk_out = <<>>
    /\ hk_op = NoHkOp

\* the platform, the QApplication and the hot keys of other processes
HotkeyEnvInit ==
    /\ is_windows \in BOOLEAN
    /\ qapp \in BOOLEAN
    /\ foreign \in SUBSET ForeignVKs

\* a call of register_all(bindings)
RegisterAll ==
    \E bindings \in BindingMaps :
        LET r == RegisterAllOn(Listener, Env, bindings)
        IN /\ SetListener(r)
           /\ hk_op' = HkOp("register_all", bindings, r.errors, "", "", 0, FALSE)
           /\ UNCHANGED envvars

\* a call of unregister_all()
UnregisterAll ==
    \E r \in UnregisterAllOn(Listener, Env) :
        /\ SetListener(r)
        /\ hk_op' = HkOp("unregister_all", <<>>, <<>>, "", "", 0, FALSE)
        /\ UNCHANGED envvars

\* Qt hands a native event to the installed filter
NativeEvent ==
    /\ installed > 0
    /\ \E event_type \in EventTypes, message \in Messages, wParam \in WParams :
          LET r == NativeEventFilter(is_windows, event_type, message, wParam)
          IN /\ hk_out' = r.out
             /\ hk_op' = HkOp("native_event", <<>>, <<>>, event_type, message,
                              wParam, r.consumed)
    /\ UNCHANGED <<registered, os_hot, filter, installed>>
    /\ UNCHANGED envvars

\* ========================================================================
\* The hot-key glue of MainWindow (app.py)
\* ========================================================================
\* the letters the settings hold for the four hot keys
SettingsLetters == {"K", "D"}
Configs == [HotkeyID -> SettingsLetters]

\* the settings the runner's and the listener's specifications rest on
ParkedSettings == [id \in HotkeyID |-> "K"]

\* the bindings dict _register_hotkeys builds from the settings
BindingsOf(cfg) == [i \in 1..4 |-> <<i, cfg[i]>>]

\* MainWindow before _register_hotkeys has run
GlueInit ==
    /\ settings \in Configs
    /\ phase = "init"

\* MainWindow.__init__ reaches _register_hotkeys()
Startup ==
    /\ phase = "init"
    /\ LET r == RegisterAllOn(Listener, Env, BindingsOf(settings))
       IN /\ SetListener(r)
          /\ hk_op' = HkOp("startup", BindingsOf(settings), r.errors,
                           "", "", 0, FALSE)
    /\ phase' = "open"
    /\ UNCHANGED <<settings, envvars>>

\* faulty variant: the new bindings are registered over the old ones
CycleStart_NoUnregister(h, env) == {h}

\* _on_settings, first half: unregister_all()
CycleStart(h, env) == UnregisterAllOn(h, env)

\* _on_settings with the dialog accepted: the settings are now newcfg
OnSettings ==
    /\ phase = "open"
    /\ \E newcfg \in Configs :
          /\ settings' = newcfg
          /\ \E u \in CycleStart(Listener, Env) :
                LET r == RegisterAllOn(u, Env, BindingsOf(newcfg))
                IN /\ SetListener([r EXCEPT !.out = u.out \o @])
                   /\ hk_op' = HkOp("settings", BindingsOf(newcfg), r.errors,
                                    "", "", 0, FALSE)
    /\ UNCHANGED <<phase, envvars>>

\* _on_settings with the dialog cancelled
SettingsCancelled ==
    /\ phase = "open"
    /\ hk_out' = <<>>
    /\ hk_op' = HkOp("settings_cancelled", <<>>, <<>>, "", "", 0, FALSE)
    /\ UNCHANGED <<registered, os_hot, filter, installed, settings, phase,
                   envvars>>

\* closeEvent accepted: unregister_all(); the runner has no process in this
\* specification, so its stop() returns at once
CloseEvent ==
    /\ phase = "open"
    /\ \E r \in UnregisterAllOn(Listener, Env) :
          /\ SetListener(r)
          /\ hk_op' = HkOp("close", <<>>, <<>>, "", "", 0, FALSE)
    /\ phase' = "closed"
    /\ UNCHANGED <<settings, envvars>>

\* ========================================================================
\* capture_snapshot (inspector/win_info.py) and the OS it asks
\* ========================================================================
\* InspectorSnapshot(): every field at its dataclass default
DefaultWindow ==
    [title |-> <<>>, class_name |-> <<>>, hwnd |-> 0, pid |-> 0,
     process_name |-> <<>>, exe_path |-> <<>>]
DefaultCoords ==
    [screen_x |-> 0, screen_y |-> 0, window_x |-> 0, window_y |-> 0,
     client_x |-> 0, client_y |-> 0]
DefaultControl == [class_nn |-> <<>>, hwnd |-> 0]
\* PixelColor(): black
DefaultColor == [r |-> 0, g |-> 0, b |-> 0]
DefaultSnapshot ==
    [window |-> DefaultWindow, coords |-> DefaultCoords,
     control |-> DefaultControl, color |-> DefaultColor]

\* the digits of format spec 02X
HexDigits ==
    <<"0", "1", "2", "3", "4", "5", "6", "7",
      "8", "9", "A", "B", "C", "D", "E", "F">>

\* f"{n:02X}" of a byte
Hex2(n) == <<HexDigits[(n \div 16) + 1], HexDigits[(n % 16) + 1]>>

\* PixelColor.hex_rgb
HexRgb(color) == <<"0", "x">> \o Hex2(color.r) \o Hex2(color.g) \o Hex2(color.b)

\* the windows of the desktop in the model: a top-level window with a child
\* control in it, and a second top-level window; 0 is the null handle
TopWindow == 3
ChildWindow == 7
OtherWindow == 4
Windows == {TopWindow, ChildWindow, OtherWindow}

\* user32.GetAncestor(hwnd, GA_ROOT): null for the null handle
GetAncestor(hwnd) ==
    CASE hwnd = ChildWindow -> TopWindow
      [] hwnd \in {TopWindow, OtherWindow} -> hwnd
      [] OTHER -> 0

\* _get_root_window
GetRootWindow(hwnd) ==
    IF GetAncestor(hwnd) # 0 THEN GetAncestor(hwnd) ELSE hwnd

\* what the OS tells about a window: its text, its class, its process, the
\* corner of its rectangle and of its client area on the screen
WindowText(hwnd) == IF hwnd \in Windows THEN <<"w", hwnd>> ELSE <<>>
ClassName(hwnd) == IF hwnd \in Windows THEN <<"c", hwnd>> ELSE <<>>
WindowPid(hwnd) == IF hwnd \in Windows THEN 100 + GetRootWindow(hwnd) ELSE 0
WindowLeft(hwnd) == IF hwnd \in Windows THEN hwnd ELSE 0
WindowTop(hwnd) == IF hwnd \in Windows THEN 2 * hwnd ELSE 0
ClientLeft(hwnd) == IF hwnd \in Windows THEN hwnd + 1 ELSE 0
ClientTop(hwnd) == IF hwnd \in Windows THEN 2 * hwnd + 1 ELSE 0

\* the image path QueryFullProcessImageNameW reports
ImagePath == <<"C", ":", "\\", "d", "\\", "a", ".", "e">>

\* ntpath.basename of a path with a drive: what follows the last separator
NtBasename(path) ==
    LET seps == {i \in DOMAIN path : path[i] \in {"\\", "/", ":"}}
        last == IF seps = {} THEN 0
                ELSE CHOOSE k \in seps : \A j \in seps : j <= k
    IN SubSeq(path, last + 1, Len(path))

\* _get_process_name
GetProcessName(exe_path) ==
    IF exe_path = <<>> THEN <<>> ELSE NtBasename(exe_path)

\* the handles OpenProcess and GetDC give when they succeed
ProcessHandle == 9
ScreenDC == 8

\* calls that acquire, use and release a scoped OS resource
SnEv(ev, h) == [ev |-> ev, h |-> h]

\* faulty variant: the resource is released only when its use succeeded
Finally_OnSuccessOnly(ok) == ok

\* try ... finally: the release runs whether the use succeeded or not
Finally(ok) == TRUE

\* _get_exe_path(pid): the path, with the calls made; handle is what
\* OpenProcess returned, query_ok what QueryFullProcessImageNameW returned
GetExePath(handle, query_ok) ==
    IF handle = 0
    THEN [value |-> <<>>, calls |-> <<SnEv("OpenProcess", 0)>>]
    ELSE [value |-> IF query_ok THEN ImagePath ELSE <<>>,
          calls |-> <<SnEv("OpenProcess", handle),
                      SnEv("QueryFullProcessImageNameW", handle)>>
                    \o (IF Finally(query_ok)
                        THEN <<SnEv("CloseHandle", handle)>> ELSE <<>>)]

\* a COLORREF, 32 bits wide, as its high and low 16 bits
ColorRef(hi, lo) == [hi |-> hi, lo |-> lo]

\* faulty variant: no colour is taken for CLR_INVALID
IsInvalidColor_Never(colorref) == FALSE

\* colorref == 0xFFFFFFFF
IsInvalidColor(colorref) == colorref.hi = 65535 /\ colorref.lo = 65535

\* colorref & 0xFF, (colorref >> 8) & 0xFF, (colorref >> 16) & 0xFF
ColorOf(colorref) ==
    [r |-> colorref.lo % 256,
     g |-> (colorref.lo \div 256) % 256,
     b |-> colorref.hi % 256]

\* _get_pixel_color(sx, sy): the colour, with the calls made; hdc is what
\* GetDC returned, colorref what GetPixel returned
GetPixelColor(hdc, colorref) ==
    IF hdc = 0
    THEN [value |-> DefaultColor, calls |-> <<SnEv("GetDC", 0)>>]
    ELSE [value |-> IF IsInvalidColor(colorref) THEN DefaultColor
                    ELSE ColorOf(colorref),
          calls |-> <<SnEv("GetDC", hdc), SnEv("GetPixel", hdc)>>
                    \o (IF Finally(~IsInvalidColor(colorref))
                        THEN <<SnEv("ReleaseDC", hdc)>> ELSE <<>>)]

\* _get_control_at: the child of hwnd at the point, if it is not hwnd itself
GetControlAt(hwnd, child) ==
    IF child # 0 /\ child # hwnd
    THEN [class_nn |-> ClassName(child), hwnd |-> child]
    ELSE DefaultControl

\* faulty variant: a remembered window wins over the window under the cursor
ResolveTarget_LastFirst(follow_mouse, last_hwnd, raw_hwnd, foreground) ==
    IF last_hwnd # 0 THEN last_hwnd
    ELSE IF follow_mouse THEN GetRootWindow(raw_hwnd) ELSE foreground

\* capture_snapshot, lines 257-261: root_hwnd
ResolveTarget(follow_mouse, last_hwnd, raw_hwnd, foreground) ==
    IF follow_mouse THEN GetRootWindow(raw_hwnd)
    ELSE IF last_hwnd # 0 THEN last_hwnd ELSE foreground

\* faulty variant: the Windows capture is used on every platform
IsStubPlatform_Never(win) == FALSE

\* the else branch of "if _IS_WINDOWS" defines capture_snapshot
IsStubPlatform(win) == ~win

\* a call of the OS that takes or returns a screen position
PtEv(ev, x, y) == [ev |-> ev, x |-> x, y |-> y]

\* faulty variant: the corner of the window is not subtracted
ScreenToWindow_NoOffset(hwnd, sx, sy) == <<sx, sy>>

\* _screen_to_window: the position relative to the corner GetWindowRect
\* reports
ScreenToWindow(hwnd, sx, sy) == <<sx - WindowLeft(hwnd), sy - WindowTop(hwnd)>>

\* _screen_to_client: what ScreenToClient turns the position into
ScreenToClient(hwnd, sx, sy) == <<sx - ClientLeft(hwnd), sy - ClientTop(hwnd)>>

\* capture_snapshot(follow_mouse, last_hwnd) with the answers os of the OS:
\* the snapshot, the resource calls made, and the calls that return or are
\* given a screen position
CaptureSnapshot(win, follow_mouse, last_hwnd, os) ==
    IF IsStubPlatform(win)
    THEN [snapshot |-> DefaultSnapshot, calls |-> <<>>, points |-> <<>>]
    ELSE LET sx == os.cursor[1]
             sy == os.cursor[2]
             root_hwnd == ResolveTarget(follow_mouse, last_hwnd,
                                        os.raw_hwnd, os.foreground)
             pid == WindowPid(root_hwnd)
             exe == GetExePath(os.handle, os.query_ok)
             color == GetPixelColor(os.hdc, os.colorref)
             w == ScreenToWindow(root_hwnd, sx, sy)
             c == ScreenToClient(root_hwnd, sx, sy)
         IN [snapshot |->
               [window |-> [title |-> WindowText(root_hwnd),
                            class_name |-> ClassName(root_hwnd),
                            hwnd |-> root_hwnd,
                            pid |-> pid,
                            exe_path |-> exe.value,
                            process_name |-> GetProcessName(exe.value)],
                coords |-> [screen_x |-> sx, screen_y |-> sy,
                            window_x |-> w[1], window_y |-> w[2],
                            client_x |-> c[1], client_y |-> c[2]],
                control |-> GetControlAt(root_hwnd,
                                IF root_hwnd = TopWindow /\ os.raw_hwnd = ChildWindow
                                THEN ChildWindow ELSE 0),
                color |-> color.value],
             calls |-> exe.calls \o color.calls,
             points |->
                <<PtEv("GetCursorPos", sx, sy)>>
                \o (IF follow_mouse
                    THEN <<PtEv("WindowFromPoint", sx, sy)>> ELSE <<>>)
                \o <<PtEv("ScreenToClient", sx, sy),
                     PtEv("ScreenToClient", sx, sy)>>
                \o (IF os.hdc # 0
                    THEN <<PtEv("GetPixel", sx, sy)>> ELSE <<>>)]

\* the answers of the OS to one capture
CursorPositions == {<<0, 0>>, <<10, 20>>}
ColorRefs ==
    {ColorRef(0, 0), ColorRef(0, 255), ColorRef(18, 13398),
     ColorRef(511, 65280), ColorRef(65535, 65535)}
OsAnswers ==
    [cursor : CursorPositions,
     raw_hwnd : {0, TopWindow, ChildWindow},
     foreground : {0, TopWindow, OtherWindow},
     handle : {0, ProcessHandle},
     query_ok : BOOLEAN,
     hdc : {0, ScreenDC},
     colorref : ColorRefs]

\* the window handles passed as last_hwnd
LastHwnds == {0, OtherWindow}

\* no capture made yet
NoSnap ==
    [made |-> FALSE, follow_mouse |-> FALSE, last_hwnd |-> 0,
     os |-> [cursor |-> <<0, 0>>, raw_hwnd |-> 0, foreground |-> 0,
             handle |-> 0, query_ok |-> FALSE, hdc |-> 0,
             colorref |-> ColorRef(0, 0)],
     snapshot |-> DefaultSnapshot, calls |-> <<>>, points |-> <<>>]

SnapInit == snap = NoSnap

\* one call of capture_snapshot
Capture ==
    /\ ~snap.made
    /\ \E follow_mouse \in BOOLEAN, last_hwnd \in LastHwnds, os \in OsAnswers :
          LET r == CaptureSnapshot(is_windows, follow_mouse, last_hwnd, os)
          IN snap' = [made |-> TRUE, follow_mouse |-> follow_mouse,
                      last_hwnd |-> last_hwnd, os |-> os,
                      snapshot |-> r.snapshot, calls |-> r.calls,
                      points |-> r.points]

\* ========================================================================
\* The code generators (hotkeys/codegen.py)
\* ========================================================================
\* Generated text is a sequence of lines, a line a sequence of pieces: the
\* literal parts of the f-strings, and the characters of what is formatted
\* into them.
DecDigits == <<"0", "1", "2", "3", "4", "5", "6", "7", "8", "9">>

\* str() of a natural number
RECURSIVE DecimalNat(_)
DecimalNat(n) ==
    IF n < 10 THEN <<DecDigits[n + 1]>>
    ELSE DecimalNat(n \div 10) \o <<DecDigits[(n % 10) + 1]>>

\* f"{n}" of an int
Decimal(n) == IF n < 0 THEN <<"-">> \o DecimalNat(0 - n) ELSE DecimalNat(n)

LowerHexDigits ==
    <<"0", "1", "2", "3", "4", "5", "6", "7",
      "8", "9", "a", "b", "c", "d", "e", "f">>

RECURSIVE HexNat(_)
HexNat(n) ==
    IF n < 16 THEN <<LowerHexDigits[n + 1]>>
    ELSE HexNat(n \div 16) \o <<LowerHexDigits[(n % 16) + 1]>>

\* hex() of a window handle
Hex(n) == <<"0x">> \o HexNat(n)

\* ', '.join(parts)
RECURSIVE Join(_)
Join(parts) ==
    IF parts = <<>> THEN <<>>
    ELSE IF Len(parts) = 1 THEN parts[1]
    ELSE parts[1] \o <<", ">> \o Join(Tail(parts))

\* header = f'CoordMode "{what}", "{coord_mode}"\n'
CoordModeLine(what, coord_mode) ==
    <<"CoordMode \"", what, "\", \"", coord_mode, "\"">>

\* faulty variant: the title is listed even when it is empty
TitlePart_Always(title) == <<<<"Title: ">> \o title>>

\* if title: parts.append(f"Title: {title}")
TitlePart(title) == IF title # <<>> THEN <<<<"Title: ">> \o title>> ELSE <<>>

\* gen_win_activate
GenWinActivateCode(hwnd, title, class_name, process_name) ==
    LET parts == TitlePart(title)
                 \o (IF class_name # <<>>
                     THEN <<<<"Class: ">> \o class_name>> ELSE <<>>)
                 \o (IF process_name # <<>>
                     THEN <<<<"Process: ">> \o process_name>> ELSE <<>>)
        comment == IF parts # <<>> THEN <<"  ; ">> \o Join(parts) ELSE <<>>
    IN << <<"WinActivate \"ahk_id ">> \o Hex(hwnd) \o <<"\"">> \o comment >>

\* faulty variant: the button is named in every click statement
ClickTail_ButtonAlways(button, count) ==
    IF count = 1 THEN <<", \"", button, "\"">>
    ELSE <<", \"", button, "\"", ", ">> \o Decimal(count)

\* gen_click, lines 39-45: what follows "Click x, y"
ClickTail(button, count) ==
    IF button = "Left" /\ count = 1 THEN <<>>
    ELSE IF button = "Left" /\ count > 1 THEN <<",, ">> \o Decimal(count)
    ELSE IF count = 1 THEN <<", \"", button, "\"">>
    ELSE <<", \"", button, "\"", ", ">> \o Decimal(count)

\* gen_click
GenClickCode(x, y, button, count, coord_mode) ==
    << CoordModeLine("Mouse", coord_mode),
       <<"Click ">> \o Decimal(x) \o <<", ">> \o Decimal(y)
           \o ClickTail(button, count) >>

\* faulty variant: the end point is named before the start point
DragPoints_EndFirst(x1, y1, x2, y2) ==
    Decimal(x2) \o <<", ">> \o Decimal(y2) \o <<", ">>
        \o Decimal(x1) \o <<", ">> \o Decimal(y1)

\* gen_drag, line 57: {x1}, {y1}, {x2}, {y2}
DragPoints(x1, y1, x2, y2) ==
    Decimal(x1) \o <<", ">> \o Decimal(y1) \o <<", ">>
        \o Decimal(x2) \o <<", ">> \o Decimal(y2)

\* gen_drag
GenDragCode(x1, y1, x2, y2, button, coord_mode) ==
    << CoordModeLine("Mouse", coord_mode),
       <<"MouseClickDrag \"", button, "\", ">> \o DragPoints(x1, y1, x2, y2) >>

\* faulty variant: the search variant is never chosen
UsesSearch_Never(use_pixel_search) == FALSE

\* if use_pixel_search
UsesSearch(use_pixel_search) == use_pixel_search

\* gen_pixel_loop
GenPixelLoopCode(x, y, target_color, coord_mode, variation, use_pixel_search) ==
    IF UsesSearch(use_pixel_search)
    THEN << CoordModeLine("Pixel", coord_mode),
            <<"Loop {">>,
            <<"    if PixelSearch(&FoundX, &FoundY, ">>
                \o Decimal(x) \o <<", ">> \o Decimal(y) \o <<", ">>
                \o Decimal(x) \o <<", ">> \o Decimal(y)
                \o <<", \"">> \o target_color \o <<"\", ">>
                \o Decimal(variation) \o <<")">>,
            <<"        break">>,
            <<"    Sleep 100">>,
            <<"}">> >>
    ELSE << CoordModeLine("Pixel", coord_mode),
            <<"Loop {">>,
            <<"    CurrentColor := PixelGetColor(">>
                \o Decimal(x) \o <<", ">> \o Decimal(y) \o <<")">>,
            <<"    if (CurrentColor = \"">> \o target_color \o <<"\")">>,
            <<"        break">>,
            <<"    Sleep 100">>,
            <<"}">> >>

\* the arguments the generators are called with in the model
GenCoords == {-2, 10}
Buttons == {"Left", "Right", "Middle"}
Counts == 1..MaxCount
CoordModes == {"Window", "Screen", "Client"}
TargetColors == {<<"0x", "F", "F", "8", "8", "0", "0">>,
                 <<"0x", "0", "0", "0", "0", "0", "0">>}
Variations == {0, 5}
Hwnds == {0, 10, 291}
Titles == {<<>>, <<"T">>}
ClassNames == {<<>>, <<"C">>}
Processes == {<<>>, <<"p", ".", "e">>}

\* the record kept of the last call of a generator
GenCall(name, x, y, x2, y2, button, count, coord_mode, color, variation,
        search, hwnd, title, class_name, process_name, code) ==
    [name |-> name, x |-> x, y |-> y, x2 |-> x2, y2 |-> y2,
     button |-> button, count |-> count, coord_mode |-> coord_mode,
     color |-> color, variation |-> variation, search |-> search,
     hwnd |-> hwnd, title |-> title, class_name |-> class_name,
     process |-> process_name, code |-> code]

NoGen ==
    GenCall("", 0, 0, 0, 0, "", 0, "", <<>>, 0, FALSE, 0, <<>>, <<>>, <<>>,
            <<>>)

GenInit == gen = NoGen

\* a call of gen_click
GenClick ==
    \E x \in GenCoords, y \in GenCoords, button \in Buttons, count \in Counts,
       coord_mode \in CoordModes :
        gen' = GenCall("gen_click", x, y, 0, 0, button, count, coord_mode,
                       <<>>, 0, FALSE, 0, <<>>, <<>>, <<>>,
                       GenClickCode(x, y, button, count, coord_mode))

\* a call of gen_drag
GenDrag ==
    \E x1 \in GenCoords, y1 \in GenCoords, x2 \in GenCoords, y2 \in GenCoords,
       button \in {"Left", "Right"}, coord_mode \in CoordModes :
        gen' = GenCall("gen_drag", x1, y1, x2, y2, button, 0, coord_mode,
                       <<>>, 0, FALSE, 0, <<>>, <<>>, <<>>,
                       GenDragCode(x1, y1, x2, y2, button, coord_mode))

\* a call of gen_pixel_loop
GenPixelLoop ==
    \E x \in GenCoords, y \in GenCoords, color \in TargetColors,
       coord_mode \in CoordModes, variation \in Variations,
       search \in BOOLEAN :
        gen' = GenCall("gen_pixel_loop", x, y, 0, 0, "", 0, coord_mode,
                       color, variation, search, 0, <<>>, <<>>, <<>>,
                       GenPixelLoopCode(x, y, color, coord_mode, variation,
                                        search))

\* a call of gen_win_activate
GenWinActivate ==
    \E hwnd \in Hwnds, title \in Titles, class_name \in ClassNames,
       process_name \in Processes :
        gen' = GenCall("gen_win_activate", 0, 0, 0, 0, "", 0, "", <<>>, 0,
                       FALSE, hwnd, title, class_name, process_name,
                       GenWinActivateCode(hwnd, title, class_name, process_name))

\* ========================================================================
\* Insertion of generated code (src/ahk_mini_ide/app.py,
\* src/ahk_mini_ide/editor/editor_widget.py)
\* ========================================================================
\* A document is the sequence of its text blocks. A block is empty, holds
\* text the user typed, or holds the n-th generated fragment (the number n).
EmptyBlock == 0
UserText == -1

\* the generated fragments a document holds, in document order
FragmentsIn(doc) == SelectSeq(doc, LAMBDA b : b >= 1)

\* CodeEditor.insert_code: move to the end of the cursor's block, open a
\* fresh line unless the block is blank, insert the code and a line break,
\* and leave the cursor on the empty block after the code
InsertCode(ed, code) ==
    LET doc == ed.document
        cur == ed.cursor
        before == IF doc[cur] # EmptyBlock
                  THEN SubSeq(doc, 1, cur)
                  ELSE SubSeq(doc, 1, cur - 1)
    IN [document |-> before \o <<code, EmptyBlock>>
                     \o SubSeq(doc, cur + 1, Len(doc)),
        cursor |-> Len(before) + 2]

\* the loop of _flush_pending
RECURSIVE InsertEach(_, _)
InsertEach(ed, codes) ==
    IF codes = <<>> THEN ed
    ELSE InsertEach(InsertCode(ed, Head(codes)), Tail(codes))

\* faulty variant: the queue is not cleared after the flush
AfterFlush_Kept(codes) == codes

\* _pending_insertions.clear()
AfterFlush(codes) == <<>>

Editor == [document |-> document, cursor |-> cursor]

InsOp(name, n) == [name |-> name, n |-> n]

\* MainWindow._insert_or_pend
InsertOrPend(code) ==
    IF has_focus
    THEN /\ document' = InsertCode(Editor, code).document
         /\ cursor' = InsertCode(Editor, code).cursor
         /\ ins_op' = InsOp("insert", 1)
         /\ UNCHANGED pending_insertions
    ELSE /\ pending_insertions' = Append(pending_insertions, code)
         /\ ins_op' = InsOp("pend", Len(pending_insertions) + 1)
         /\ UNCHANGED <<document, cursor>>

\* MainWindow._flush_pending
FlushPending ==
    IF pending_insertions # <<>>
    THEN /\ document' = InsertEach(Editor, pending_insertions).document
         /\ cursor' = InsertEach(Editor, pending_insertions).cursor
         /\ pending_insertions' = AfterFlush(pending_insertions)
         /\ ins_op' = InsOp("flush", Len(pending_insertions))
    ELSE /\ ins_op' = InsOp("flush", 0)
         /\ UNCHANGED <<document, cursor, pending_insertions>>

\* the documents the editor may hold when the window opens
Documents == {<<EmptyBlock>>, <<UserText>>, <<UserText, UserText>>}

InsertInit ==
    /\ has_focus = FALSE
    /\ pending_insertions = <<>>
    /\ document = <<EmptyBlock>>
    /\ cursor = 1
    /\ drag_start = FALSE
    /\ generated = 0
    /\ ins_op = InsOp("none", 0)

\* MainWindow._on_hotkey: the first press of the drag hot key only stores
\* the start point; every other press generates a fragment
OnHotkey ==
    \E hid \in HotkeyID :
        IF HotkeyName(hid) = "DRAG" /\ ~drag_start
        THEN /\ drag_start' = TRUE
             /\ ins_op' = InsOp("drag_start", 0)
             /\ UNCHANGED <<has_focus, pending_insertions, document, cursor,
                            generated>>
        ELSE /\ generated < MaxFragments
             /\ generated' = generated + 1
             /\ drag_start' = IF HotkeyName(hid) = "DRAG" THEN FALSE
                              ELSE drag_start
             /\ InsertOrPend(generated + 1)
             /\ UNCHANGED has_focus

\* MainWindow.eventFilter on FocusIn of the editor
FocusIn ==
    /\ has_focus' = TRUE
    /\ FlushPending
    /\ UNCHANGED <<drag_start, generated>>

\* the editor loses the input focus
FocusOut ==
    /\ has_focus
    /\ has_focus' = FALSE
    /\ ins_op' = InsOp("focus_out", 0)
    /\ UNCHANGED <<pending_insertions, document, cursor, drag_start,
                   generated>>


\* ========================================================================
\* Settings.add_recent_project (src/ahk_mini_ide/settings.py)
\* ========================================================================
\* recents[:10]
RecentLimit == 10

\* project paths: one more than the list can hold
ProjectPaths == 1..(RecentLimit + 1)

\* list.remove(p): the list without the first occurrence of p
RemoveFirst(list, p) ==
    LET i == CHOOSE k \in DOMAIN list :
                 list[k] = p /\ \A j \in 1..(k - 1) : list[j] # p
    IN SubSeq(list, 1, i - 1) \o SubSeq(list, i + 1, Len(list))

\* faulty variant: the list is never searched for the project
AlreadyListed_Never(list, p) == FALSE

\* p in recents
AlreadyListed(list, p) == \E k \in DOMAIN list : list[k] = p

\* add_recent_project: the new value of the list
AddRecentProject(list, p) ==
    LET rest == IF AlreadyListed(list, p) THEN RemoveFirst(list, p) ELSE list
        recents == <<p>> \o rest
    IN SubSeq(recents, 1, IF Len(recents) < RecentLimit
                          THEN Len(recents) ELSE RecentLimit)

\* the lists the settings file may hold at start-up, each one written by
\* earlier calls of add_recent_project: none, two, and a full list
StoredLists ==
    {<<>>, <<2, 1>>, [i \in 1..RecentLimit |-> RecentLimit + 1 - i]}

RecentInit == recent = [projects |-> <<>>, initial |-> <<>>, added |-> <<>>]

\* ProjectManager._open calls add_recent_project with the project's root
AddRecent ==
    /\ Len(recent.added) < MaxAdds
    /\ \E p \in ProjectPaths :
          recent' = [recent EXCEPT
                        !.projects = AddRecentProject(recent.projects, p),
                        !.added = Append(recent.added, p)]


\* ========================================================================
\* The inspector tick (src/ahk_mini_ide/inspector/inspector_widget.py) and
\* the hot-key dispatch (src/ahk_mini_ide/app.py)
\* ========================================================================
\* self._drag_start is None
NoPoint == <<>>

\* the record kept of the last handler
DispOp(name, hid, held, code) ==
    [name |-> name, hid |-> hid, held |-> held, code |-> code]

\* InspectorWidget.__init__
InspectorInit ==
    inspector = [snapshot |-> DefaultSnapshot, last_hwnd |-> 0,
                 frozen |-> FALSE, follow_mouse |-> TRUE]

\* MainWindow.__init__; the default coordinate mode is "Window"
DispatchInit ==
    dispatch = [drag_start |-> NoPoint, coord_mode |-> "Window",
                start_coords |-> DefaultCoords, presses |-> 0, drags |-> 0,
                op |-> DispOp("init", 0, FALSE, <<>>)]

\* the answers of the OS to the captures of the ticks
TickAnswers ==
    [cursor : CursorPositions,
     raw_hwnd : {0, ChildWindow},
     foreground : {0, OtherWindow},
     handle : {ProcessHandle},
     query_ok : {TRUE},
     hdc : {ScreenDC},
     colorref : {ColorRef(18, 13398)}]

\* faulty variant: a held modifier does not freeze the inspector
FreezeDue_Never(held) == FALSE

\* is_modifier_held(): Ctrl or Shift is down
FreezeDue(held) == held

\* InspectorWidget._tick
InspectorTick ==
    \E held \in BOOLEAN, os \in TickAnswers :
        /\ IF FreezeDue(held)
           THEN inspector' = [inspector EXCEPT !.frozen = TRUE]
           ELSE LET s == CaptureSnapshot(is_windows, inspector.follow_mouse,
                                         inspector.last_hwnd, os).snapshot
                IN inspector' =
                      [inspector EXCEPT
                          !.frozen = FALSE,
                          !.snapshot = s,
                          !.last_hwnd = IF s.window.hwnd # 0
                                        THEN s.window.hwnd ELSE @]
        /\ dispatch' = [dispatch EXCEPT !.op = DispOp("tick", 0, held, <<>>)]

\* InspectorWidget._on_follow_toggled
FollowToggled ==
    \E checked \in BOOLEAN :
        /\ inspector' = [inspector EXCEPT !.follow_mouse = checked]
        /\ dispatch' = [dispatch EXCEPT !.op = DispOp("follow", 0, FALSE, <<>>)]

\* SettingsDialog: the default coordinate mode is saved
CoordModeSaved ==
    \E mode \in CoordModes :
        /\ dispatch' = [dispatch EXCEPT
                           !.coord_mode = mode,
                           !.op = DispOp("settings", 0, FALSE, <<>>)]
        /\ UNCHANGED inspector

\* _on_hotkey, lines 291-297: the coordinates of the configured mode
PointIn(coords, coord_mode) ==
    CASE coord_mode = "Screen" -> <<coords.screen_x, coords.screen_y>>
      [] coord_mode = "Client" -> <<coords.client_x, coords.client_y>>
      [] OTHER -> <<coords.window_x, coords.window_y>>

\* Settings.get("color_slack", 5)
ColorSlack == 5

\* faulty variant: a start point is never found stored
DragStartStored_Never(start) == FALSE

\* self._drag_start is not None
DragStartStored(start) == start # NoPoint

\* MainWindow._on_hotkey
OnHotkeyCode ==
    \E hid \in HotkeyID :
        LET snapshot == inspector.snapshot
            coord_mode == dispatch.coord_mode
            pt == PointIn(snapshot.coords, coord_mode)
            w == snapshot.window
        IN /\ UNCHANGED inspector
           /\ CASE HotkeyName(hid) = "WIN_ACTIVATE" ->
                     dispatch' = [dispatch EXCEPT !.op =
                        DispOp("hotkey", hid, FALSE,
                               GenWinActivateCode(w.hwnd, w.title,
                                   w.class_name, w.process_name))]
                [] HotkeyName(hid) = "CLICK" ->
                     dispatch' = [dispatch EXCEPT !.op =
                        DispOp("hotkey", hid, FALSE,
                               GenClickCode(pt[1], pt[2], "Left", 1,
                                            coord_mode))]
                [] HotkeyName(hid) = "PIXEL_LOOP" ->
                     dispatch' = [dispatch EXCEPT !.op =
                        DispOp("hotkey", hid, FALSE,
                               GenPixelLoopCode(pt[1], pt[2],
                                   HexRgb(snapshot.color), coord_mode,
                                   ColorSlack, FALSE))]
                [] HotkeyName(hid) = "DRAG" ->
                     /\ dispatch.presses < MaxPresses
                     /\ IF ~DragStartStored(dispatch.drag_start)
                        THEN dispatch' = [dispatch EXCEPT
                                !.drag_start = pt,
                                !.start_coords = snapshot.coords,
                                !.presses = @ + 1,
                                !.op = DispOp("hotkey", hid, FALSE, <<>>)]
                        ELSE dispatch' = [dispatch EXCEPT
                                !.drag_start = NoPoint,
                                !.presses = @ + 1,
                                !.drags = @ + 1,
                                !.op = DispOp("hotkey", hid, FALSE,
                                    GenDragCode(dispatch.drag_start[1],
                                                dispatch.drag_start[2],
                                                pt[1], pt[2], "Left",
                                                coord_mode))]


\* ========================================================================
\* Specifications
\* ========================================================================
\* the inspector capture and the code generators as the other
\* specifications hold them
AuxParked ==
    /\ SnapInit
    /\ GenInit
    /\ InsertInit
    /\ RecentInit
    /\ InspectorInit
    /\ DispatchInit

\* the hot-key layer as the runner's specifications hold it
HotkeysParked ==
    /\ is_windows = TRUE
    /\ qapp = TRUE
    /\ foreign = {}
    /\ HotkeyManagerInit
    /\ settings = ParkedSettings
    /\ phase = "init"

\* MainWindow.__init__: the runner is constructed
Init ==
    /\ RunnerInit
    /\ CmdInit
    /\ HotkeysParked
    /\ AuxParked

Next ==
    \/ Run /\ UNCHANGED nonRunnerVars
    \/ Stop /\ UNCHANGED nonRunnerVars
    \/ HardKill /\ UNCHANGED nonRunnerVars
    \/ Tick /\ UNCHANGED nonRunnerVars
    \/ OnStdout /\ UNCHANGED nonRunnerVars
    \/ OnStderr /\ UNCHANGED nonRunnerVars
    \/ LateStarted /\ UNCHANGED nonRunnerVars
    \/ LateStartFailed /\ UNCHANGED nonRunnerVars
    \/ ProcessExit /\ UNCHANGED nonRunnerVars

Spec == Init /\ [][Next]_vars

NextCmd == ResolveCommand /\ UNCHANGED <<vars, hkvars, gluevars, auxvars>>

SpecCmd == Init /\ [][NextCmd]_cmdvars

\* the runner in an environment where no start is still undecided after the
\* 3 seconds of waitForStarted
NextPrompt ==
    \/ RunPrompt /\ UNCHANGED nonRunnerVars
    \/ Stop /\ UNCHANGED nonRunnerVars
    \/ HardKill /\ UNCHANGED nonRunnerVars
    \/ Tick /\ UNCHANGED nonRunnerVars
    \/ OnStdout /\ UNCHANGED nonRunnerVars
    \/ OnStderr /\ UNCHANGED nonRunnerVars
    \/ ProcessExit /\ UNCHANGED nonRunnerVars

SpecPrompt == Init /\ [][NextPrompt]_vars

\* QProcess.finished of a process that was sent kill()
KilledProcessExit ==
    /\ \E p \in Pids : procs[p].st = "Running" /\ procs[p].killed
    /\ ProcessExit

\* run of a script that is saved on disk: no temporary file is involved
RunSaved ==
    \/ RunRejected(FALSE)
    \/ \E outcome \in StartOutcomes : RunAccepted(FALSE, outcome)

NextLive ==
    \/ RunSaved /\ UNCHANGED nonRunnerVars
    \/ Stop /\ UNCHANGED nonRunnerVars
    \/ HardKill /\ UNCHANGED nonRunnerVars
    \/ Tick /\ UNCHANGED nonRunnerVars
    \/ OnStdout /\ UNCHANGED nonRunnerVars
    \/ OnStderr /\ UNCHANGED nonRunnerVars
    \/ LateStarted /\ UNCHANGED nonRunnerVars
    \/ LateStartFailed /\ UNCHANGED nonRunnerVars
    \/ ProcessExit /\ UNCHANGED nonRunnerVars

\* time passes, a kill timer whose timeout is reached fires, and a process
\* that was sent kill() exits
Fairness ==
    /\ WF_vars(Tick /\ UNCHANGED nonRunnerVars)
    /\ WF_vars(HardKill /\ UNCHANGED nonRunnerVars)
    /\ WF_vars(KilledProcessExit /\ UNCHANGED nonRunnerVars)

\* the runner of saved scripts under these conditions
SpecLive == Init /\ [][NextLive]_vars /\ Fairness

\* the listener, called in any order, on any platform
InitHotkeys ==
    /\ RunnerInit
    /\ CmdInit
    /\ HotkeyEnvInit
    /\ HotkeyManagerInit
    /\ settings = ParkedSettings
    /\ phase = "init"
    /\ AuxParked

NextHotkeys ==
    \/ RegisterAll /\ UNCHANGED <<vars, cmdvars, gluevars, auxvars>>
    \/ UnregisterAll /\ UNCHANGED <<vars, cmdvars, gluevars, auxvars>>
    \/ NativeEvent /\ UNCHANGED <<vars, cmdvars, gluevars, auxvars>>

SpecHotkeys == InitHotkeys /\ [][NextHotkeys]_hkvars

\* the listener as MainWindow drives it
InitGlue ==
    /\ RunnerInit
    /\ CmdInit
    /\ HotkeyEnvInit
    /\ HotkeyManagerInit
    /\ GlueInit
    /\ AuxParked

NextGlue ==
    \/ Startup /\ UNCHANGED <<vars, cmdvars, auxvars>>
    \/ OnSettings /\ UNCHANGED <<vars, cmdvars, auxvars>>
    \/ SettingsCancelled /\ UNCHANGED <<vars, cmdvars, auxvars>>
    \/ CloseEvent /\ UNCHANGED <<vars, cmdvars, auxvars>>
    \/ NativeEvent /\ UNCHANGED <<vars, cmdvars, settings, phase, auxvars>>

SpecGlue == InitGlue /\ [][NextGlue]_<<hkvars, gluevars>>

\* capture_snapshot on any platform, with any answers of the OS
InitSnap ==
    /\ RunnerInit
    /\ CmdInit
    /\ is_windows \in BOOLEAN
    /\ qapp = TRUE
    /\ foreign = {}
    /\ HotkeyManagerInit
    /\ settings = ParkedSettings
    /\ phase = "init"
    /\ SnapInit
    /\ GenInit
    /\ InsertInit
    /\ RecentInit
    /\ InspectorInit
    /\ DispatchInit

NextSnap ==
    Capture /\ UNCHANGED <<vars, cmdvars, hkvars, gluevars, genvars, insvars,
                          recentvars, dispvars>>

SpecSnap == InitSnap /\ [][NextSnap]_snapvars

\* the code generators, called in any order
NextGen ==
    \/ GenClick /\ UNCHANGED <<vars, cmdvars, hkvars, gluevars, snapvars, insvars, recentvars, dispvars>>
    \/ GenDrag /\ UNCHANGED <<vars, cmdvars, hkvars, gluevars, snapvars, insvars, recentvars, dispvars>>
    \/ GenPixelLoop /\ UNCHANGED <<vars, cmdvars, hkvars, gluevars, snapvars, insvars, recentvars, dispvars>>
    \/ GenWinActivate /\ UNCHANGED <<vars, cmdvars, hkvars, gluevars, snapvars, insvars, recentvars, dispvars>>

SpecGen == Init /\ [][NextGen]_genvars

\* the insertion of generated code under any interleaving of hot keys and
\* focus changes, from any document and either focus state
InitInsert ==
    /\ RunnerInit
    /\ CmdInit
    /\ HotkeysParked
    /\ SnapInit
    /\ GenInit
    /\ has_focus \in BOOLEAN
    /\ pending_insertions = <<>>
    /\ document \in Documents
    /\ cursor \in DOMAIN document
    /\ drag_start = FALSE
    /\ generated = 0
    /\ ins_op = InsOp("none", 0)
    /\ RecentInit
    /\ InspectorInit
    /\ DispatchInit

NextInsert ==
    \/ OnHotkey /\ UNCHANGED <<vars, cmdvars, hkvars, gluevars, snapvars, genvars, recentvars, dispvars>>
    \/ FocusIn /\ UNCHANGED <<vars, cmdvars, hkvars, gluevars, snapvars, genvars, recentvars, dispvars>>
    \/ FocusOut /\ UNCHANGED <<vars, cmdvars, hkvars, gluevars, snapvars, genvars, recentvars, dispvars>>

SpecInsert == InitInsert /\ [][NextInsert]_insvars

\* add_recent_project called with any projects, from any stored list
InitRecent ==
    /\ RunnerInit
    /\ CmdInit
    /\ HotkeysParked
    /\ SnapInit
    /\ GenInit
    /\ InsertInit
    /\ \E list \in StoredLists :
          recent = [projects |-> list, initial |-> list, added |-> <<>>]
    /\ InspectorInit
    /\ DispatchInit

NextRecent ==
    AddRecent /\ UNCHANGED <<vars, cmdvars, hkvars, gluevars, snapvars, genvars,
                            insvars, dispvars>>

SpecRecent == InitRecent /\ [][NextRecent]_recentvars

\* the ticks of the inspector, the hot keys and changes of the settings in
\* any order
OtherThanDispatch ==
    <<vars, cmdvars, hkvars, gluevars, snapvars, genvars, insvars, recentvars>>

NextDispatch ==
    \/ InspectorTick /\ UNCHANGED OtherThanDispatch
    \/ FollowToggled /\ UNCHANGED OtherThanDispatch
    \/ CoordModeSaved /\ UNCHANGED OtherThanDispatch
    \/ OnHotkeyCode /\ UNCHANGED OtherThanDispatch

SpecDispatch == Init /\ [][NextDispatch]_dispvars

\* ========================================================================
\* Properties
\* ========================================================================
\* the processes a forced kill was issued to in the step just taken
KilledIn(evs) == {evs[i].n : i \in {j \in DOMAIN evs : evs[j].ev = "kill"}}

\* the kinds of the events of a step
KindsIn(evs) == {evs[i].ev : i \in DOMAIN evs}

IsStateChanged(e) == e.ev = "state_changed"

\* the state_changed notifications of a step, in order
ChangesIn(evs) == SelectSeq(evs, IsStateChanged)

NormalExitMessage == <<"Process", "exited", "normally">>

\* C1: run called while a child process is active and the runner state is
\* RUNNING changes nothing: the state stays RUNNING, no QProcess is created
\* or started, no temporary file is created (unsaved_text or not), and no
\* state_changed, stdout_ready or finished notification is emitted.
C1_RunWhileRunningIsNoop ==
    [][ ( /\ op'.name = "run"
          /\ state = "RUNNING"
          /\ process # 0
          /\ procs[process].st \in {"Starting", "Running"} )
        => ( /\ state' = "RUNNING"
             /\ procs' = procs
             /\ process' = process
             /\ fs' = fs
             /\ temp_file' = temp_file
             /\ KindsIn(out') \cap {"state_changed", "stdout_ready", "finished",
                                    "start", "mkstemp"} = {} ) ]_vars

\* a run request with unsaved text was made while a child was running
C1_Witness ==
    /\ op.name = "run"
    /\ op.res = "rejected"
    /\ op.unsaved
    /\ state = "RUNNING"
    /\ procs[process].st = "Running"

\* C2: at most one QProcess of the runner is starting or running.
C2_AtMostOneActiveProcess ==
    Cardinality({p \in 1..Len(procs) :
                    procs[p].st \in {"Starting", "Running"}}) <= 1

\* a second process is active after the first has exited, and a run request
\* made meanwhile was rejected
C2_Witness ==
    /\ Len(procs) = 2
    /\ procs[1].st = "NotRunning"
    /\ procs[2].st = "Running"
    /\ op.name = "run"
    /\ op.res = "rejected"

\* C3: a forced kill is issued to a process only while it has not exited,
\* and, once stop was called on it, not before the timeout of a stop on it
\* has elapsed; and when a timer armed by a stop on a process fires while
\* that process has not exited, the forced kill is issued in that very step.
C3_GracefulKillEscalation ==
    [][ /\ \A p \in KilledIn(out') :
              /\ p \in 1..Len(procs)
              /\ procs[p].st # "NotRunning"
              /\ procs[p].termed =>
                    \E t \in TimerIds : /\ timers[t].active
                                        /\ timers[t].pid = p
                                        /\ timers[t].rem = 0
        /\ ( /\ op'.name = "hard_kill"
             /\ op'.pid \in 1..Len(procs)
             /\ procs[op'.pid].st # "NotRunning" )
           => op'.pid \in KilledIn(out') ]_vars

\* C4: when the runner has just handled a process exit, and when a run has
\* just been accepted, no kill timer is pending.
C4_NoPendingTimerAcrossRuns ==
    ( \/ op.name = "finished"
      \/ (op.name = "run" /\ op.res # "rejected") )
    => \A t \in TimerIds : ~timers[t].active

\* C5: after a process exit with code 0 the state is IDLE and the completion
\* event carries 0 and 'Process exited normally'; after an exit with a
\* nonzero code N the state is ERROR and the completion event carries N.
C5_ExitCodeDecidesState ==
    op.name = "finished" =>
        LET fin == out[Len(out)]
        IN /\ fin.ev = "finished"
           /\ fin.n = op.code
           /\ StateChanged(state) \in Range(out)
           /\ op.code = 0 => (state = "IDLE" /\ fin.msg = NormalExitMessage)
           /\ op.code # 0 => state = "ERROR"

\* a process has exited with a nonzero code
C5_Witness ==
    /\ op.name = "finished"
    /\ op.code # 0
    /\ state = "ERROR"
    /\ out[Len(out)].n = op.code

\* C6: the completion message says 'crashed' exactly when the exit status is
\* CrashExit, whatever the exit code, and never says 'exited normally' for a
\* crash.
C6_CrashDecidedByExitStatus ==
    op.name = "finished" =>
        LET msg == out[Len(out)].msg
        IN /\ ("crashed" \in Range(msg)) <=> (op.status = "CrashExit")
           /\ op.status = "CrashExit" => msg # NormalExitMessage

\* C7: after a run whose process did not report started within the bound,
\* the state is ERROR, the last event is the completion event with code -1
\* and the 'failed to start' message, the process was started once, and no
\* process of the runner is left starting or running, so that the next run
\* request is accepted.
C7_StartFailure ==
    (op.name = "run" /\ op.res \in {"failed", "timedout"}) =>
        /\ state = "ERROR"
        /\ out[Len(out)] = Finished(-1, <<"Failed", "to", "start", "AHK", "process">>)
        /\ Cardinality({i \in DOMAIN out : out[i].ev = "start"}) = 1
        /\ \A p \in 1..Len(procs) : procs[p].st = "NotRunning"

\* C8: stop called while the runner state is not RUNNING changes nothing and
\* issues nothing.
C8_StopWhenNotRunningIsNoop ==
    [][ (op'.name = "stop" /\ state # "RUNNING")
        => ( /\ out' = <<>>
             /\ UNCHANGED <<state, process, procs, temp_file, fs,
                            kill_timer, timers>> ) ]_vars

\* C9: every state_changed notification takes the runner from IDLE or ERROR
\* to RUNNING, or from RUNNING to IDLE or ERROR.
C9_StateTransitions ==
    [][ LET chg == ChangesIn(out')
        IN \A i \in DOMAIN chg :
              LET from == IF i = 1 THEN state ELSE chg[i - 1].s
              IN <<from, chg[i].s>> \in {<<"IDLE", "RUNNING">>,
                                         <<"ERROR", "RUNNING">>,
                                         <<"RUNNING", "IDLE">>,
                                         <<"RUNNING", "ERROR">>} ]_vars

\* C10: when the process of a run that was given unsaved text exits, the
\* removal of that run's temporary file is attempted before anything is
\* emitted; when it succeeds the file is gone; whether it succeeds or raises
\* OSError, the state and the completion event are those the exit code asks
\* for and the runner forgets the file.
C10_TempFileRemovedOnExit ==
    (op.name = "finished" /\ op.unsaved) =>
        /\ Len(out) = 3
        /\ out[1].ev = "remove"
        /\ out[1].n = op.pid
        /\ out[1].s = "ok" => op.pid \notin fs
        /\ out[2] = StateChanged(IF op.code = 0 THEN "IDLE" ELSE "ERROR")
        /\ out[3].ev = "finished"
        /\ out[3].n = op.code
        /\ state = IF op.code = 0 THEN "IDLE" ELSE "ERROR"
        /\ temp_file = 0

\* the removal of the temporary file raised OSError
C10_Witness ==
    /\ op.name = "finished"
    /\ op.unsaved
    /\ out[1].ev = "remove"
    /\ out[1].s = "OSError"
    /\ op.pid \in fs

\* the maximal runs of non-blank characters of str, as pairs <<first, last>>
RunsOf(str) ==
    {r \in (DOMAIN str) \X (DOMAIN str) :
        /\ r[1] <= r[2]
        /\ \A k \in r[1]..r[2] : str[k] # " "
        /\ r[1] = 1 \/ str[r[1] - 1] = " "
        /\ r[2] = Len(str) \/ str[r[2] + 1] = " "}

\* the position of run r among the runs rs, from the left
RankIn(r, rs) == Cardinality({q \in rs : q[1] <= r[1]})

\* C11: the command line is the interpreter path, then the blank-separated
\* words of flags from left to right, then the target, then the
\* blank-separated words of args from left to right, and nothing else; the
\* target is the temporary file when unsaved text was given and script_path
\* otherwise.
C11_CommandLineOrder ==
    call.made =>
        LET fl == RunsOf(call.flags)
            ar == RunsOf(call.args)
            nf == Cardinality(fl)
        IN /\ Len(call.cmd) = 1 + nf + 1 + Cardinality(ar)
           /\ call.cmd[1] = call.ahk_exe
           /\ \A r \in fl :
                 call.cmd[1 + RankIn(r, fl)] = SubSeq(call.flags, r[1], r[2])
           /\ call.cmd[nf + 2] = IF call.unsaved THEN TempPath
                                 ELSE call.script_path
           /\ \A r \in ar :
                 call.cmd[nf + 2 + RankIn(r, ar)] = SubSeq(call.args, r[1], r[2])

\* unsaved text run with two flags and one argument
C11_Witness ==
    /\ call.made
    /\ call.unsaved
    /\ call.flags = <<"a", " ", "a">>
    /\ call.args = <<" ", "a", "a">>
    /\ call.cmd = <<call.ahk_exe, <<"a">>, <<"a">>, TempPath, <<"a", "a">>>>

\* d is the directory that contains the file named by path t
IsDirOf(d, t) ==
    LET k == Len(d)
        rest == SubSeq(t, k + 1, Len(t))
    IN /\ k <= Len(t)
       /\ SubSeq(t, 1, k) = d
       /\ IF \A i \in DOMAIN t : t[i] # "/"
          THEN d = <<>>
          ELSE /\ d # <<>>
               /\ \E m \in 0..Len(rest) :
                     /\ \A i \in 1..m : rest[i] = "/"
                     /\ \A i \in (m + 1)..Len(rest) : rest[i] # "/"
                     /\ \/ d[k] # "/" /\ m >= 1
                        \/ (\A i \in DOMAIN d : d[i] = "/") /\ m = 0

\* C12: the working directory is the caller's working_dir when that is not
\* empty, and otherwise the directory that contains the target: the
\* directory of the temporary file when unsaved text is run, that of
\* script_path otherwise.
C12_WorkingDirectory ==
    call.made =>
        /\ call.working_dir # <<>> => call.wd = call.working_dir
        /\ call.working_dir = <<>> =>
              IsDirOf(call.wd, IF call.unsaved THEN TempPath
                               ELSE call.script_path)

\* unsaved text run without a working directory: the temporary directory
C12_Witness ==
    /\ call.made
    /\ call.working_dir = <<>>
    /\ call.unsaved
    /\ call.script_path = <<"d", "/", "s">>
    /\ call.wd = <<"/", "t">>

\* the positions of event e in the events evs of a step
PositionsOf(e, evs) == {i \in DOMAIN evs : evs[i] = e}

\* output of the child process, or the completion event
IsChildEvent(e) ==
    \/ e.ev \in {"finished", "stderr_ready"}
    \/ e = StdoutReady("child")

\* C13: an accepted run emits state_changed(RUNNING), then the command line
\* as an output line, then starts the process, each once and in this order;
\* child output and the completion event of a run are emitted only after the
\* command-line line of that run: later in the same step, or in a later step.
C13_RunNotificationOrder ==
    [][ /\ (op'.name = "run" /\ op'.res # "rejected") =>
              \E i, j, k \in DOMAIN out' :
                  /\ i < j /\ j < k
                  /\ PositionsOf(StateChanged("RUNNING"), out') = {i}
                  /\ PositionsOf(StdoutReady("cmdline"), out') = {j}
                  /\ {n \in DOMAIN out' : out'[n].ev = "start"} = {k}
                  /\ out'[k] = ProcStart(op'.pid)
                  /\ op'.pid \notin 1..Len(procs)
        /\ \A n \in DOMAIN out' :
              IsChildEvent(out'[n]) =>
                  \/ op'.name # "run" /\ op'.pid \in 1..Len(procs)
                  \/ /\ op'.name = "run"
                     /\ \E j \in 1..(n - 1) : out'[j] = StdoutReady("cmdline")
      ]_vars

\* an accepted run of unsaved text whose process failed to start: the
\* completion event is emitted by the same call
C13_Witness ==
    /\ op.name = "run"
    /\ op.res = "failed"
    /\ op.unsaved
    /\ Len(out) = 6
    /\ out[6].ev = "finished"

\* the virtual-key code of the Ctrl+Shift hot key of a letter
KeyCodeOf(letter) == IF letter \in {"K", "k"} THEN 75 ELSE 68

IsRegisterCall(e) == e.ev = "RegisterHotKey"
IsUnregisterCall(e) == e.ev = "UnregisterHotKey"

\* the RegisterHotKey calls of a step, in order
RegisterCallsIn(evs) == SelectSeq(evs, IsRegisterCall)

C15_AtMostOneFilter ==
    [][ LET installs == {i \in DOMAIN hk_out' : hk_out'[i] = InstallFilter}
        IN /\ installed' <= 1
           /\ Cardinality(installs) <= 1
           /\ installs # {} => (installed = 0 /\ installed' = 1)
      ]_hkvars

\* a register_all on a listener whose filter is installed already
C15_Witness ==
    /\ hk_op.name = "register_all"
    /\ installed = 1
    /\ filter
    /\ \A i \in DOMAIN hk_out : hk_out[i] # InstallFilter

\* C16: unregister_all leaves an empty table, no filter installed, and none
\* of the bindings the table held registered at the OS; on a listener with
\* nothing registered it changes nothing and calls nothing.
C16_UnregisterAllReleasesAll ==
    [][ hk_op'.name = "unregister_all" =>
          /\ registered' = EmptyTable
          /\ ~filter'
          /\ installed' = 0
          /\ \A id \in DOMAIN registered :
                OsEntry(id, registered[id]) \notin os_hot'
          /\ (registered = EmptyTable /\ ~filter) =>
                /\ hk_out' = <<>>
                /\ UNCHANGED <<registered, os_hot, filter, installed>>
      ]_hkvars

\* C17: a WM_HOTKEY message seen by the filter makes the listener emit
\* hotkey_triggered once, with the id, when the id is 1, 2, 3 or 4, and
\* nothing otherwise; any other event makes it emit nothing and is not
\* consumed.
C17_DispatchKnownIdsOnly ==
    hk_op.name = "native_event" =>
        IF hk_op.event_type = "windows_generic_MSG"
           /\ hk_op.message = "WM_HOTKEY"
        THEN IF hk_op.wParam \in {1, 2, 3, 4}
             THEN hk_out = <<HotkeyTriggered(hk_op.wParam)>>
             ELSE hk_out = <<>>
        ELSE hk_out = <<>> /\ ~hk_op.consumed

\* a WM_HOTKEY message of PIXEL_LOOP
C17_Witness ==
    /\ hk_op.name = "native_event"
    /\ hk_op.message = "WM_HOTKEY"
    /\ hk_op.event_type = "windows_generic_MSG"
    /\ hk_op.wParam = 3
    /\ hk_out = <<HotkeyTriggered(3)>>

\* C18: off Windows nothing is ever registered and no filter is installed;
\* register_all returns the one message "Global hotkeys require Windows"
\* and calls nothing, whatever the mapping; unregister_all calls nothing.
C18_NoHotkeysOffWindows ==
    ~is_windows =>
        /\ registered = EmptyTable
        /\ os_hot = {}
        /\ ~filter
        /\ installed = 0
        /\ hk_out = <<>>
        /\ hk_op.name = "register_all" =>
              hk_op.errors = <<<<"Global hotkeys require Windows">>>>
        /\ hk_op.name = "unregister_all" => hk_op.errors = <<>>

\* register_all of two bindings off Windows
C18_Witness ==
    /\ ~is_windows
    /\ hk_op.name = "register_all"
    /\ Len(hk_op.bindings) = 2
    /\ Len(hk_op.errors) = 1

\* C19: the OS never holds two hot keys under one id, every hot key the OS
\* holds is in the table, and after unregister_all the OS holds none.
C19_NoDuplicateRegistration ==
    /\ \A e1, e2 \in os_hot : e1.id = e2.id => e1 = e2
    /\ \A e \in os_hot :
          /\ e.id \in DOMAIN registered
          /\ registered[e.id] = e.vk
    /\ hk_op.name = "unregister_all" => os_hot = {}

\* C20: an accepted settings change calls UnregisterHotKey for every id of
\* the table before the first RegisterHotKey; the RegisterHotKey calls are
\* those of the bindings of the new settings; afterwards the table and the
\* OS hold only bindings of the new settings, and the OS holds nothing the
\* table does not.
C20_SettingsChangeCycle ==
    [][ hk_op'.name = "settings" =>
          LET calls == RegisterCallsIn(hk_out')
              unreg == {i \in DOMAIN hk_out' : IsUnregisterCall(hk_out'[i])}
              reg == {i \in DOMAIN hk_out' : IsRegisterCall(hk_out'[i])}
          IN /\ \A i \in unreg, j \in reg : i < j
             /\ {hk_out'[i].id : i \in unreg} = DOMAIN registered
             /\ is_windows =>
                   /\ Len(calls) = 4
                   /\ \A i \in 1..4 :
                         /\ calls[i].id = i
                         /\ calls[i].vk = KeyCodeOf(settings'[i])
             /\ \A id \in DOMAIN registered' :
                   registered'[id] = KeyCodeOf(settings'[id])
             /\ \A e \in os_hot' :
                   /\ e.id \in DOMAIN registered'
                   /\ registered'[e.id] = e.vk
      ]_<<hkvars, gluevars>>

\* a settings change that moved CLICK from K to D
C20_Witness ==
    /\ hk_op.name = "settings"
    /\ Len(hk_out) > 0
    /\ hk_out[1] = UnregisterHotKey(1, 75, TRUE)
    /\ settings[1] = "D"
    /\ 1 \in DOMAIN registered
    /\ registered[1] = 68

\* C21: off Windows capture_snapshot returns, whatever its arguments, a
\* snapshot with window handle 0, every other field empty or zero, and a
\* colour whose hex form is "0x000000"; it asks the OS nothing.
C21_StubSnapshot ==
    (snap.made /\ ~is_windows) =>
        /\ snap.snapshot.window.hwnd = 0
        /\ snap.snapshot.window.pid = 0
        /\ snap.snapshot.window.title = <<>>
        /\ snap.snapshot.window.class_name = <<>>
        /\ snap.snapshot.window.process_name = <<>>
        /\ snap.snapshot.window.exe_path = <<>>
        /\ \A f \in DOMAIN snap.snapshot.coords : snap.snapshot.coords[f] = 0
        /\ snap.snapshot.control = [class_nn |-> <<>>, hwnd |-> 0]
        /\ snap.snapshot.color = [r |-> 0, g |-> 0, b |-> 0]
        /\ HexRgb(snap.snapshot.color) = <<"0", "x", "0", "0", "0", "0", "0", "0">>
        /\ snap.calls = <<>>

\* a capture off Windows that does not follow the mouse and names a window
C21_Witness ==
    /\ snap.made
    /\ ~is_windows
    /\ ~snap.follow_mouse
    /\ snap.last_hwnd = OtherWindow
    /\ snap.os.raw_hwnd = ChildWindow

\* C22: on Windows the window handle of the snapshot is the top-level
\* ancestor of the window under the cursor when follow_mouse is true;
\* otherwise last_hwnd when that is not 0; otherwise the foreground window.
C22_TargetWindow ==
    (snap.made /\ is_windows) =>
        snap.snapshot.window.hwnd =
            IF snap.follow_mouse
            THEN (IF snap.os.raw_hwnd = ChildWindow THEN TopWindow
                  ELSE snap.os.raw_hwnd)
            ELSE IF snap.last_hwnd # 0 THEN snap.last_hwnd
            ELSE snap.os.foreground

\* the mouse is over a child control while another window is remembered
C22_Witness ==
    /\ snap.made
    /\ is_windows
    /\ snap.follow_mouse
    /\ snap.last_hwnd = OtherWindow
    /\ snap.os.raw_hwnd = ChildWindow
    /\ snap.os.foreground = OtherWindow
    /\ snap.snapshot.window.hwnd = TopWindow

\* the red, green and blue bytes of the colours GetPixel returns in the model
ComponentsOf(colorref) ==
    CASE colorref = ColorRef(0, 0) -> [r |-> 0, g |-> 0, b |-> 0]
      [] colorref = ColorRef(0, 255) -> [r |-> 255, g |-> 0, b |-> 0]
      [] colorref = ColorRef(18, 13398) -> [r |-> 86, g |-> 52, b |-> 18]
      [] colorref = ColorRef(511, 65280) -> [r |-> 0, g |-> 255, b |-> 255]
      [] colorref = ColorRef(65535, 65535) -> [r |-> 255, g |-> 255, b |-> 255]

\* C23: on Windows the capture returns whatever the pixel sampling meets;
\* the colour is black when GetDC gave no surface or GetPixel returned
\* 0xFFFFFFFF, and the red, green and blue bytes of the colour read
\* otherwise.
C23_PixelSentinel ==
    (snap.made /\ is_windows) =>
        snap.snapshot.color =
            IF snap.os.hdc = 0
               \/ (snap.os.colorref.hi = 65535 /\ snap.os.colorref.lo = 65535)
            THEN [r |-> 0, g |-> 0, b |-> 0]
            ELSE ComponentsOf(snap.os.colorref)

\* a pixel read that reports the invalid colour
C23_Witness ==
    /\ snap.made
    /\ is_windows
    /\ snap.os.hdc # 0
    /\ snap.os.colorref = ColorRef(65535, 65535)
    /\ snap.snapshot.color = [r |-> 0, g |-> 0, b |-> 0]

\* in the calls c, every resource that acquire gave is released by exactly
\* one release, after its use, and release is called for nothing else
ScopedIn(c, acquire, use, release) ==
    /\ \A i \in DOMAIN c :
          (c[i].ev = acquire /\ c[i].h # 0) =>
              /\ Cardinality({j \in DOMAIN c : c[j] = SnEv(release, c[i].h)}) = 1
              /\ \A j \in DOMAIN c : c[j] = SnEv(release, c[i].h) => j > i
              /\ \A j, k \in DOMAIN c :
                    (c[j] = SnEv(use, c[i].h) /\ c[k] = SnEv(release, c[i].h))
                        => j < k
    /\ \A j \in DOMAIN c :
          c[j].ev = release =>
              /\ c[j].h # 0
              /\ \E i \in 1..(j - 1) : c[i] = SnEv(acquire, c[j].h)

\* C24: a capture closes the process handle it opened and releases the
\* screen surface it got, once each and after using them, whether the path
\* query and the pixel read succeeded or not, and releases nothing else.
C24_ResourcesReleased ==
    snap.made =>
        /\ ScopedIn(snap.calls, "OpenProcess", "QueryFullProcessImageNameW",
                    "CloseHandle")
        /\ ScopedIn(snap.calls, "GetDC", "GetPixel", "ReleaseDC")

\* both resources acquired, the path query and the pixel read both failed
C24_Witness ==
    /\ snap.made
    /\ is_windows
    /\ snap.os.handle # 0
    /\ ~snap.os.query_ok
    /\ snap.os.hdc # 0
    /\ snap.os.colorref = ColorRef(65535, 65535)
    /\ Len(snap.calls) = 6

\* the decimal numerals of the numbers the generators are called with
Numeral(n) ==
    CASE n = -2 -> <<"-", "2">>
      [] n = 0 -> <<"0">>
      [] n = 1 -> <<"1">>
      [] n = 2 -> <<"2">>
      [] n = 3 -> <<"3">>
      [] n = 5 -> <<"5">>
      [] n = 10 -> <<"1", "0">>

\* the statement CoordMode "what", "coord_mode"
IsCoordModeLine(line, what, coord_mode) ==
    line = <<"CoordMode \"", what, "\", \"", coord_mode, "\"">>

\* C25: gen_click returns one CoordMode "Mouse" statement and then one Click
\* statement: "Click x, y" for Left with count 1; "Click x, y,, count" for
\* Left with count > 1; for any other button the button is named, and the
\* count follows it exactly when count > 1.
C25_ClickForms ==
    gen.name = "gen_click" =>
        LET start == <<"Click ">> \o Numeral(gen.x) \o <<", ">> \o Numeral(gen.y)
            named == <<", \"", gen.button, "\"">>
            counted == <<", ">> \o Numeral(gen.count)
        IN /\ Len(gen.code) = 2
           /\ IsCoordModeLine(gen.code[1], "Mouse", gen.coord_mode)
           /\ (gen.button = "Left" /\ gen.count = 1) => gen.code[2] = start
           /\ (gen.button = "Left" /\ gen.count > 1) =>
                 gen.code[2] = start \o <<",, ">> \o Numeral(gen.count)
           /\ (gen.button # "Left" /\ gen.count = 1) =>
                 gen.code[2] = start \o named
           /\ (gen.button # "Left" /\ gen.count > 1) =>
                 gen.code[2] = start \o named \o counted

\* a double right click
C25_Witness ==
    /\ gen.name = "gen_click"
    /\ gen.button = "Right"
    /\ gen.count = 2
    /\ gen.x = -2
    /\ Len(gen.code) = 2

\* the hexadecimal numerals of the window handles the generator is called
\* with
HexNumeral(n) ==
    CASE n = 0 -> <<"0x", "0">>
      [] n = 10 -> <<"0x", "a">>
      [] n = 291 -> <<"0x", "1", "2", "3">>

\* C26: gen_win_activate returns one statement WinActivate "ahk_id 0x..."
\* with the handle in hexadecimal, followed by a comment that lists the
\* non-empty ones of title, class and process, in this order, joined by
\* ", "; there is no comment when all three are empty.
C26_WinActivateComment ==
    gen.name = "gen_win_activate" =>
        LET stmt == <<"WinActivate \"ahk_id ">> \o HexNumeral(gen.hwnd) \o <<"\"">>
            t == <<"Title: ">> \o gen.title
            c == <<"Class: ">> \o gen.class_name
            p == <<"Process: ">> \o gen.process
            has == <<gen.title # <<>>, gen.class_name # <<>>, gen.process # <<>>>>
            pre == <<"  ; ">>
            sep == <<", ">>
            comment ==
                CASE has = <<FALSE, FALSE, FALSE>> -> <<>>
                  [] has = <<TRUE, FALSE, FALSE>> -> pre \o t
                  [] has = <<FALSE, TRUE, FALSE>> -> pre \o c
                  [] has = <<FALSE, FALSE, TRUE>> -> pre \o p
                  [] has = <<TRUE, TRUE, FALSE>> -> pre \o t \o sep \o c
                  [] has = <<TRUE, FALSE, TRUE>> -> pre \o t \o sep \o p
                  [] has = <<FALSE, TRUE, TRUE>> -> pre \o c \o sep \o p
                  [] has = <<TRUE, TRUE, TRUE>> ->
                         pre \o t \o sep \o c \o sep \o p
        IN gen.code = <<stmt \o comment>>

\* a window with a title and a process but no class
C26_Witness ==
    /\ gen.name = "gen_win_activate"
    /\ gen.hwnd = 291
    /\ gen.title # <<>>
    /\ gen.class_name = <<>>
    /\ gen.process # <<>>
    /\ Len(gen.code) = 1

\* C27: gen_pixel_loop returns a CoordMode "Pixel" statement and one Loop
\* without a count; the loop body is, by default, the read of the pixel at
\* (x, y), its comparison with the target colour, break, and Sleep 100;
\* with use_pixel_search it is a PixelSearch of the region from (x, y) to
\* (x, y) with the variation, break, and Sleep 100; never both.
C27_PixelLoopVariants ==
    gen.name = "gen_pixel_loop" =>
        LET at == Numeral(gen.x) \o <<", ">> \o Numeral(gen.y)
            read == <<"    CurrentColor := PixelGetColor(">> \o at \o <<")">>
            compare == <<"    if (CurrentColor = \"">> \o gen.color \o <<"\")">>
            search == <<"    if PixelSearch(&FoundX, &FoundY, ">>
                          \o at \o <<", ">> \o at
                          \o <<", \"">> \o gen.color \o <<"\", ">>
                          \o Numeral(gen.variation) \o <<")">>
            body == IF gen.search THEN <<search>> ELSE <<read, compare>>
        IN /\ IsCoordModeLine(gen.code[1], "Pixel", gen.coord_mode)
           /\ gen.code = <<gen.code[1], <<"Loop {">>>> \o body
                         \o << <<"        break">>, <<"    Sleep 100">>, <<"}">> >>

\* the search variant
C27_Witness ==
    /\ gen.name = "gen_pixel_loop"
    /\ gen.search
    /\ gen.variation = 5
    /\ Len(gen.code) = 6

\* C28: every call of gen_drag, whatever was generated before it, returns a
\* CoordMode "Mouse" statement and then one MouseClickDrag statement that
\* names the button, then x1, y1, then x2, y2.
C28_DragStatement ==
    [][ gen'.name = "gen_drag" =>
          /\ Len(gen'.code) = 2
          /\ IsCoordModeLine(gen'.code[1], "Mouse", gen'.coord_mode)
          /\ gen'.code[2] =
                <<"MouseClickDrag \"", gen'.button, "\", ">>
                \o Numeral(gen'.x) \o <<", ">> \o Numeral(gen'.y) \o <<", ">>
                \o Numeral(gen'.x2) \o <<", ">> \o Numeral(gen'.y2)
      ]_genvars

\* a drag from (-2, 10) to (10, -2)
C28_Witness ==
    /\ gen.name = "gen_drag"
    /\ gen.x = -2
    /\ gen.y = 10
    /\ gen.x2 = 10
    /\ gen.y2 = -2
    /\ Len(gen.code) = 2

\* the fragments generated so far, in the order of their generation
GeneratedSoFar(n) == [i \in 1..n |-> i]

\* C29: a generated fragment goes into the editor at once when the editor
\* has the focus and to the end of the queue otherwise; a focus gain puts
\* all queued fragments into the editor in their order and empties the
\* queue; in every state the fragments in the document followed by the
\* queued ones are the generated ones, each once, in the order generated.
C29_InsertOrQueue ==
    [][ /\ FragmentsIn(document') \o pending_insertions'
            = GeneratedSoFar(generated')
        /\ (generated' = generated + 1 /\ has_focus) =>
              /\ FragmentsIn(document')
                    = FragmentsIn(document) \o <<generated'>>
              /\ pending_insertions' = pending_insertions
        /\ (generated' = generated + 1 /\ ~has_focus) =>
              /\ pending_insertions'
                    = pending_insertions \o <<generated'>>
              /\ document' = document
        /\ (~has_focus /\ has_focus') =>
              /\ FragmentsIn(document')
                    = FragmentsIn(document) \o pending_insertions
              /\ pending_insertions' = <<>>
      ]_insvars

\* two queued fragments were just flushed into a document that already
\* held the first fragment before user text
C29_Witness ==
    /\ ins_op = InsOp("flush", 2)
    /\ has_focus
    /\ pending_insertions = <<>>
    /\ document = <<UserText, 1, 2, 3, EmptyBlock, UserText>>

\* stop has just sent terminate to process object p, which is running
StopSentTo(p) ==
    /\ op.name = "stop"
    /\ op.res = "sent"
    /\ op.pid = p
    /\ procs[p].st = "Running"

\* _on_finished has just run for process object p
FinishedFor(p) ==
    /\ op.name = "finished"
    /\ op.pid = p
    /\ state \in {"IDLE", "ERROR"}
    /\ \E i \in DOMAIN out : out[i].ev = "finished"

\* C30: when kill timers fire and killed processes exit, every stop that
\* sent terminate to a running process is eventually followed by the exit
\* handler of that process: the runner is IDLE or ERROR and the completion
\* event was emitted.
C30_StopLeadsToFinished ==
    \A p \in 1..MaxRuns : StopSentTo(p) ~> FinishedFor(p)

\* the kill timer of a stop has fired and the process that ignored
\* terminate was sent kill
C30_Witness ==
    /\ op.name = "hard_kill"
    /\ op.res = "kill"
    /\ process # 0
    /\ procs[process].st = "Running"
    /\ procs[process].termed
    /\ procs[process].killed

\* C31: a forced kill goes only to a process on which stop was called, and
\* only when the timer that fires was armed by a stop on that same process:
\* a timer armed during one run never kills the process of a later run.
C31_KillOnlyOwnRun ==
    [][ (op'.name = "hard_kill" /\ op'.res = "kill")
        => ( /\ KilledIn(out') = {op'.pid}
             /\ op'.pid = process
             /\ procs[process].termed ) ]_vars

\* C32: when a run ends, by a failed start or by the exit of its process,
\* the temporary file created for that run is gone, unless its removal was
\* attempted in that step and raised OSError.
C32_TempFileGoneAfterRun ==
    [][ ( /\ op'.name \in {"run", "finished"}
          /\ op'.res # "rejected"
          /\ state' \in {"IDLE", "ERROR"} )
        => ( op'.pid \in fs' => Remove(op'.pid, FALSE) \in Range(out') ) ]_vars

\* the positions of the completion events of a step
CompletionsIn(evs) == {i \in DOMAIN evs : evs[i].ev = "finished"}

\* the runner state when the event at position i of a step is emitted: the
\* state of the last state_changed before it, or the state before the step
StateAt(evs, i, before) ==
    LET chg == ChangesIn(SubSeq(evs, 1, i - 1))
    IN IF chg = <<>> THEN before ELSE chg[Len(chg)].s

\* C33: a step emits at most one completion event; the runner state is
\* IDLE or ERROR when it is emitted; and it ends a run that had not emitted
\* one yet: the runner was RUNNING until the state change that precedes it.
C33_OneCompletionPerRun ==
    [][ /\ Cardinality(CompletionsIn(out')) <= 1
        /\ \A i \in CompletionsIn(out') :
              /\ StateAt(out', i, state) \in {"IDLE", "ERROR"}
              /\ i > 1
              /\ IsStateChanged(out'[i - 1])
              /\ StateAt(out', i - 1, state) = "RUNNING" ]_vars

\* C37: a capture on Windows reads the cursor position once, first; it is
\* the screen position of the snapshot, and the window lookup, the two
\* conversions (client coordinates, control lookup) and the pixel sample
\* are given that same position; the window coordinates are the screen
\* position minus the top-left corner of the target window.
C37_OneCursorReading ==
    (snap.made /\ is_windows) =>
        LET pts == snap.points
            co == snap.snapshot.coords
            hwnd == snap.snapshot.window.hwnd
        IN /\ {i \in DOMAIN pts : pts[i].ev = "GetCursorPos"} = {1}
           /\ \A i \in DOMAIN pts :
                 pts[i].x = pts[1].x /\ pts[i].y = pts[1].y
           /\ co.screen_x = pts[1].x
           /\ co.screen_y = pts[1].y
           /\ co.window_x = co.screen_x - WindowLeft(hwnd)
           /\ co.window_y = co.screen_y - WindowTop(hwnd)
           /\ co.client_x = co.screen_x - ClientLeft(hwnd)
           /\ co.client_y = co.screen_y - ClientTop(hwnd)

\* the cursor at (10, 20) over the child of a window whose corner is not
\* the origin; the pixel is sampled
C37_Witness ==
    /\ snap.made
    /\ is_windows
    /\ snap.follow_mouse
    /\ snap.os.cursor = <<10, 20>>
    /\ snap.snapshot.window.hwnd = TopWindow
    /\ snap.snapshot.coords.window_x = 10 - TopWindow
    /\ snap.snapshot.control.hwnd = ChildWindow
    /\ Len(snap.points) = 5

\* a sequence in reverse
Reverse(seq) == [i \in 1..Len(seq) |-> seq[Len(seq) + 1 - i]]

\* a sequence without the later occurrences of its elements
RECURSIVE KeepFirst(_)
KeepFirst(seq) ==
    IF seq = <<>> THEN <<>>
    ELSE <<Head(seq)>>
         \o KeepFirst(SelectSeq(Tail(seq), LAMBDA q : q # Head(seq)))

\* C38: after one or more calls of add_recent_project the list has no
\* duplicates and at most 10 entries, its first entry is the project added
\* last, and it holds the projects in the order of their last addition,
\* latest first: those added by the calls, then those of the stored list.
C38_RecentProjects ==
    recent.added # <<>> =>
        LET list == recent.projects
            byRecency == KeepFirst(Reverse(recent.added) \o recent.initial)
        IN /\ \A i, j \in DOMAIN list : list[i] = list[j] => i = j
           /\ Len(list) <= 10
           /\ list[1] = recent.added[Len(recent.added)]
           /\ Len(list) <= Len(byRecency)
           /\ list = SubSeq(byRecency, 1, Len(list))
           /\ Len(list) < 10 => list = byRecency

\* a full list to which a new project and then a listed one were added:
\* the oldest entry was dropped and the listed one moved to the front
C38_Witness ==
    /\ recent.initial = [i \in 1..10 |-> 11 - i]
    /\ recent.added = <<11, 5>>
    /\ Len(recent.projects) = 10
    /\ recent.projects[1] = 5
    /\ recent.projects[2] = 11
    /\ \A i \in 1..10 : recent.projects[i] # 1

\* C34: after n presses of the drag hot key floor(n/2) drag statements have
\* been generated and a start point is stored iff n is odd; a press without
\* a stored start stores the current point and generates nothing; a press
\* with a stored start generates one drag statement from the stored start
\* to the current point and clears the start; any other hot key leaves the
\* stored start and the counts as they are.
C34_DragTwoStep ==
    [][ LET d == dispatch
            e == dispatch'
            pt == PointIn(inspector.snapshot.coords, d.coord_mode)
            isDrag == e.op.name = "hotkey" /\ HotkeyName(e.op.hid) = "DRAG"
        IN /\ e.drags = e.presses \div 2
           /\ (e.drag_start # NoPoint) <=> (e.presses % 2 = 1)
           /\ (e.op.name = "hotkey" /\ ~isDrag) =>
                 /\ e.drag_start = d.drag_start
                 /\ e.presses = d.presses
                 /\ e.drags = d.drags
           /\ (isDrag /\ d.drag_start = NoPoint) =>
                 /\ e.op.code = <<>>
                 /\ e.drag_start = pt
                 /\ e.presses = d.presses + 1
           /\ (isDrag /\ d.drag_start # NoPoint) =>
                 /\ Len(e.op.code) = 2
                 /\ e.op.code[2][1] = "MouseClickDrag \""
                 /\ e.op.code = GenDragCode(d.drag_start[1], d.drag_start[2],
                                            pt[1], pt[2], "Left", d.coord_mode)
                 /\ e.drag_start = NoPoint
                 /\ e.presses = d.presses + 1
      ]_dispvars

\* the third press: one drag statement so far, and a start stored again
C34_Witness ==
    /\ dispatch.presses = 3
    /\ dispatch.drags = 1
    /\ dispatch.drag_start # NoPoint
    /\ dispatch.op.name = "hotkey"
    /\ dispatch.op.code = <<>>

\* C35: the stored snapshot changes only in a tick with neither Ctrl nor
\* Shift held; a tick with a modifier held leaves the stored snapshot and
\* the last-window handle as they are; the hot-key dispatch leaves the
\* inspector as it is; the last-window handle only ever changes to a
\* non-zero handle.
C35_SnapshotReplacedByFreeTick ==
    [][ /\ inspector'.snapshot # inspector.snapshot =>
              (dispatch'.op.name = "tick" /\ ~dispatch'.op.held)
        /\ (dispatch'.op.name = "tick" /\ dispatch'.op.held) =>
              /\ inspector'.snapshot = inspector.snapshot
              /\ inspector'.last_hwnd = inspector.last_hwnd
        /\ dispatch'.op.name = "hotkey" => inspector' = inspector
        /\ inspector'.last_hwnd # inspector.last_hwnd =>
              inspector'.last_hwnd # 0
      ]_dispvars

\* a tick with a modifier held, after a capture of a window
C35_Witness ==
    /\ dispatch.op.name = "tick"
    /\ dispatch.op.held
    /\ inspector.frozen
    /\ inspector.snapshot.window.hwnd = TopWindow
    /\ inspector.last_hwnd = TopWindow
    /\ inspector.snapshot.coords.screen_x = 10

\* the coordinates of a snapshot in the space a coordinate mode names
CoordsFor(coords, mode) ==
    CASE mode = "Screen" -> <<coords.screen_x, coords.screen_y>>
      [] mode = "Window" -> <<coords.window_x, coords.window_y>>
      [] mode = "Client" -> <<coords.client_x, coords.client_y>>

\* C36: the code a hot key generates names one coordinate mode, and the
\* coordinates in it are those of that mode: for a click and a pixel loop
\* the point of the stored snapshot, for a drag the point of the snapshot
\* of the first press and the point of the stored snapshot.
C36_CoordinatesMatchMode ==
    (dispatch.op.name = "hotkey" /\ dispatch.op.code # <<>>
     /\ HotkeyName(dispatch.op.hid) # "WIN_ACTIVATE") =>
        \E mode \in {"Screen", "Window", "Client"} :
            LET code == dispatch.op.code
                what == IF HotkeyName(dispatch.op.hid) = "PIXEL_LOOP"
                        THEN "Pixel" ELSE "Mouse"
                here == CoordsFor(inspector.snapshot.coords, mode)
                start == CoordsFor(dispatch.start_coords, mode)
            IN /\ IsCoordModeLine(code[1], what, mode)
               /\ HotkeyName(dispatch.op.hid) = "CLICK" =>
                     code = GenClickCode(here[1], here[2], "Left", 1, mode)
               /\ HotkeyName(dispatch.op.hid) = "PIXEL_LOOP" =>
                     code = GenPixelLoopCode(here[1], here[2],
                                HexRgb(inspector.snapshot.color), mode, 5,
                                FALSE)
               /\ HotkeyName(dispatch.op.hid) = "DRAG" =>
                     code = GenDragCode(start[1], start[2], here[1], here[2],
                                        "Left", mode)

====
